---- MODULE Spec2Model ----
(***************************************************************************)
(* Model of umap/layouts.py: the epoch-driven stochastic layout optimiser. *)
(*                                                                         *)
(* Numbers.  Times (epoch numbers and the per-edge schedule arrays) are    *)
(* integers in units of 1/TU epoch, so that 1.0, 1.5, 2.0 epochs and their *)
(* quotients by the negative sample rate are exact.  Coordinates are       *)
(* fixed-point integers in units of 1/S.  A gradient coefficient is kept   *)
(* as an exact rational and rounded once (toward zero) when a component is *)
(* added to a coordinate.  The curve parameters are a = 1, b = 1, so       *)
(* pow(d, b) = d and pow(d, b - 1) = 1.                                    *)
(***************************************************************************)
EXTENDS Integers, Sequences, FiniteSets, TLC

\* ------------------------------------------------------------------ bounds
NVertices == 4
MaxEdges == 2
MaxEpochs == 3
NThreads == 2

\* Resolution of the model's arithmetic (not program values).
TU == 2 * 4
S == 2 * 2

\* Hyperparameters of a run (arguments of optimize_layout_*).
a == 1
b == 1
initial_alpha == 1

VARIABLES
    \* ---- arguments of the run (never written after Init)
    kernel,              \* which optimize_layout_* entry point runs
    move_other,
    n_epochs,
    n_embeddings,        \* 1, except in the aligned driver
    head, tail,          \* [m][i]: vertex indices of edge i of embedding m
    epochs_per_sample,   \* [m][i]
    negative_sample_rate,\* <<num, den>>
    dim,
    aliased,             \* tail_embedding is the same array as head_embedding
    init_embedding,      \* the head embedding as passed in
    gamma,               \* weight of the negative samples
    pin_mask,            \* [kind, keys, shape, pins]: None, a dict or an array
    output_constrain,    \* the keys of the output_constrain dict
    \* ---- state of the run
    pc,
    fixed_pos_idxs,      \* pinned points of the registered pin_mask ({} when none)
    hooks,               \* the registered hook keys
    n,                   \* epoch number of the driver loop
    alpha,               \* <<num, den>>
    head_embedding,      \* [m][vertex][d]
    tail_embedding,      \* [m][vertex][d], read only when ~aliased
    epochs_per_negative_sample,
    epoch_of_next_sample,
    epoch_of_next_negative_sample,
    rng_state,
    embedding_order,     \* aligned kernel: this epoch's visiting order
    pending,             \* loop iterations <<m, i>> of this epoch still to run
    \* ---- observation
    kernel_alpha,        \* alpha passed to the kernel of epoch n
    fires,               \* [<<m, i>>]: attractive updates performed so far
    draws,               \* [<<m, i>>]: tau_rand_int calls made for the edge
    hook_log,            \* what the last loop iteration did to its points, in order
    max_step,            \* largest change of a coordinate by one write of that iteration
    metric_calls,        \* [<<m, i>>]: output_metric calls made for the edge
    epoch_pt_calls,      \* calls of the epoch_pt function so far
    final_pt_calls,      \* calls of the final_pt function so far
    scratch,             \* parallel kernel: thread and tmp1 cells written by the last iteration
    epoch_start,         \* [he, te, rng, eons, eonns, fires, draws]: their values when the current kernel call began
    updates,             \* [vertex]: updates applied to the point in the current kernel call
    lost_update,         \* a write of the current kernel call has overwritten another thread's update
    sister,              \* the same arguments run, in edge order, by the kernel's sister implementation
    densmap,             \* density augmentation requested
    densmap_kwds,        \* [lambda, frac]: weight of the density term, share <<num, den>> of the epochs it is meant for
    densmap_flag,        \* the flag the kernel of the current epoch is called with
    dens_phi_sum,        \* [vertex]: sum of phi over the point's edges, in thousandths
    dens_re_sum,         \* [vertex]: <<x, y>> stands for log(epsilon + x / y)
    dens_re_stats,       \* the dens_re_sum that dens_re_std, dens_re_mean and dens_re_cov were last computed from
    dens_epochs,         \* the epochs in which dens_init_fn ran
    dens_term_epochs,    \* the epochs in which a firing edge had the density term added to grad_coeff
    twin                 \* a second run on the same arguments (sequential Euclidean)

vars == <<kernel, move_other, n_epochs, n_embeddings, head, tail,
          epochs_per_sample, negative_sample_rate, dim, aliased,
          init_embedding, gamma, pin_mask, output_constrain,
          pc, fixed_pos_idxs, hooks, n, alpha, head_embedding, tail_embedding,
          epochs_per_negative_sample, epoch_of_next_sample,
          epoch_of_next_negative_sample, rng_state, embedding_order, pending,
          kernel_alpha, fires, draws, hook_log, max_step, metric_calls, epoch_pt_calls,
          final_pt_calls, twin,
          scratch,
          epoch_start,
          updates,
          lost_update,
          sister,
          densmap,
          densmap_kwds,
          densmap_flag,
          dens_phi_sum,
          dens_re_sum,
          dens_re_stats,
          dens_epochs,
          dens_term_epochs>>

args == <<kernel, move_other, n_epochs, n_embeddings, head, tail,
          epochs_per_sample, negative_sample_rate, dim, aliased,
          init_embedding, gamma, pin_mask, output_constrain,
          densmap,
          densmap_kwds>>

\* what the set-up registers, fixed from then on
registered == <<fixed_pos_idxs, hooks>>

Vertices == 0 .. NVertices - 1

\* ------------------------------------------------------- numeric primitives
Abs(x) == IF x < 0 THEN -x ELSE x

\* int(x / y) of the code: the quotient rounded toward zero (y > 0).
TruncDiv(x, y) == IF x >= 0 THEN x \div y ELSE -((-x) \div y)

\* Variant of clip: the gradient component is passed on as it is.
clipNot(val) == val

\* clip(val), on fixed-point values: 4.0 is 4 * S.
clip(val) ==
    IF val > 4 * S THEN 4 * S
    ELSE IF val < -(4 * S) THEN -(4 * S)
    ELSE val

RECURSIVE SumTo(_, _)
SumTo(f, k) == IF k < 0 THEN 0 ELSE f[k] + SumTo(f, k - 1)

\* rdist(x, y): squared distance, in units of 1/S^2.
rdist(x, y) ==
    SumTo([d \in DOMAIN x |-> (x[d] - y[d]) * (x[d] - y[d])], dim - 1)

\* coeff * delta for a rational coefficient <<num, den1, den2>> = num/(den1*den2),
\* rounded toward zero to the coordinate grid.
Times(coeff, delta) == TruncDiv(TruncDiv(coeff[1] * delta, coeff[2]), coeff[3])

\* al * x for the learning rate al = <<num, den>>.
Scale(al, x) == TruncDiv(al[1] * x, al[2])

\* ------------------------------------------------------------ constraints
\* The hook functions themselves live in umap/constraints.py; the optimiser
\* only calls them.  The model registers these:
\*   idx_grad  pin_mask_1d -> pinindexed_grad: zero gradient at a pinned index
\*   idx_pt    freeinf_pt : a pinned point is put back at its given position
\*   grad      dimlohi_grad: no gradient component that leaves the box
\*   pt, epoch_pt, final_pt  dimlohi_pt: coordinates clamped into the box
BoxLo == 0
BoxHi == 2 * S

HookKeys == {"idx_grad", "idx_pt", "grad", "pt", "epoch_pt", "final_pt"}

pinindexed_grad(idx, pt, grad) ==
    IF idx \in fixed_pos_idxs THEN [d \in DOMAIN grad |-> 0] ELSE grad

freeinf_pt(idx, pt) ==
    IF idx \in fixed_pos_idxs THEN init_embedding[0][idx] ELSE pt

dimlohi_grad(pt, grad) ==
    [d \in DOMAIN grad |->
        IF \/ pt[d] <= BoxLo /\ grad[d] < 0
           \/ pt[d] >= BoxHi /\ grad[d] > 0
        THEN 0 ELSE grad[d]]

dimlohi_pt(pt) ==
    [d \in DOMAIN pt |->
        IF pt[d] < BoxLo THEN BoxLo ELSE IF pt[d] > BoxHi THEN BoxHi ELSE pt[d]]

\* wrap_idx_grad(idx, pt, grad), wrap_grad(pt, grad), wrap_idx_pt(idx, pt),
\* wrap_pt(pt) as the kernel calls them: "if wrap_... is not None: ...".
wrap_idx_grad(idx, pt, grad) ==
    IF "idx_grad" \in hooks THEN pinindexed_grad(idx, pt, grad) ELSE grad
wrap_grad(pt, grad) ==
    IF "grad" \in hooks THEN dimlohi_grad(pt, grad) ELSE grad
wrap_idx_pt(idx, pt) ==
    IF "idx_pt" \in hooks THEN freeinf_pt(idx, pt) ELSE pt
wrap_pt(pt) ==
    IF "pt" \in hooks THEN dimlohi_pt(pt) ELSE pt

\* _grad_mods = wrap_idx_grad is not None or wrap_grad is not None
grad_mods == "idx_grad" \in hooks \/ "grad" \in hooks

\* ------------------------------------------------------- the run's arrays
\* A run state st: [he, te, eons, eonns, rng, crashed, ...], the arrays a
\* kernel call reads and writes (head/tail embedding, the two schedule
\* arrays, the PRNG state), whether the process has died, and what is
\* observed of one loop iteration (log, u, metric, maxstep).
Dims == 0 .. dim - 1

HeadRow(st, m, j) == st.he[m][j]
TailRow(st, m, k) == IF aliased THEN st.he[m][k] ELSE st.te[m][k]

\* A write of a row; st.maxstep keeps the largest change of a coordinate
\* that one write has made.
Furthest(x, y) ==
    CHOOSE w \in {Abs(x[d] - y[d]) : d \in DOMAIN x} :
        \A o \in {Abs(x[d] - y[d]) : d \in DOMAIN x} : o <= w
Widest(p, q) == IF p > q THEN p ELSE q

SetHead(st, m, j, row) ==
    [st EXCEPT !.he[m][j] = row, !.maxstep = Widest(@, Furthest(row, st.he[m][j]))]
SetTail(st, m, k, row) ==
    IF aliased
    THEN [st EXCEPT !.he[m][k] = row, !.maxstep = Widest(@, Furthest(row, st.he[m][k]))]
    ELSE [st EXCEPT !.te[m][k] = row, !.maxstep = Widest(@, Furthest(row, st.te[m][k]))]

\* tau_rand_int(rng_state): advances the state in place and returns a word.
\* (umap/utils.py; only the call contract is used.)
TauRandInt(s) == (5 * s + 1) % 8

\* ------------------------------------------------------ Epoch Scheduler
\* Variant of Due: an edge is due one epoch early (epoch_of_next_sample[i] <= n + 1).
DueOneEarly(e, nn) == e <= (nn + 1) * TU

\* epoch_of_next_sample[i] <= n
Due(e, nn) == e <= nn * TU

\* Variants of NNegSamples: one sample too many; rounding toward minus
\* infinity instead of toward zero.
NNegSamplesPlusOne(nn, eonns_i, epns_i) == TruncDiv(nn * TU - eonns_i, epns_i) + 1
NNegSamplesFloor(nn, eonns_i, epns_i) == (nn * TU - eonns_i) \div epns_i

\* int((n - epoch_of_next_negative_sample[i]) / epochs_per_negative_sample[i])
NNegSamples(nn, eonns_i, epns_i) == TruncDiv(nn * TU - eonns_i, epns_i)

\* ------------------------------------------------- Euclidean coefficients
\* -2ab d^(b-1) / (a d^b + 1) if d > 0 else 0, d = D / S^2
AttractiveCoeff(D) ==
    IF D > 0 THEN <<-(2 * a * b * S * S), a * D + S * S, 1>>
    ELSE <<0, 1, 1>>

\* 2 gamma b / ((0.001 + d)(a d^b + 1))
RepulsiveCoeff(D) ==
    <<2 * gamma * b * 1000 * S * S * S * S, S * S + 1000 * D, a * D + S * S>>

\* Variant of Step: the step is taken twice over.
StepTwice(al, g) == [d \in DOMAIN g |-> 2 * Scale(al, clip(g[d]))]

RawGrad(coeff, cur, oth) == [d \in Dims |-> Times(coeff, cur[d] - oth[d])]
Neg(g) == [d \in DOMAIN g |-> -g[d]]
Step(al, g) == [d \in DOMAIN g |-> Scale(al, clip(g[d]))]
Plus(x, y) == [d \in DOMAIN x |-> x[d] + y[d]]

\* ------------------------------------------------------ Euclidean kernel
\* What a kernel call does to a point is recorded in st.log as events
\* <<what, role, u>>: what is a hook key (logged when the hook is registered,
\* "if wrap_... is not None"), "add" (the += on the row) or "skip" (the
\* "continue" of a negative sample); role is "current" or "other"; u is 0 for
\* the attractive update and p + 1 for negative sample p.
Called(st, key, role) ==
    IF key \in hooks THEN [st EXCEPT !.log = Append(@, <<key, role, st.u>>)] ELSE st
Logged(st, what, role) == [st EXCEPT !.log = Append(@, <<what, role, st.u>>)]

\* current[d] += delta[d]; other[d] += delta[d]
MoveHead(st, m, j, delta) ==
    Logged(SetHead(st, m, j, Plus(HeadRow(st, m, j), delta)), "add", "current")
MoveTail(st, m, k, delta) ==
    Logged(SetTail(st, m, k, Plus(TailRow(st, m, k), delta)), "add", "other")

\* "if wrap_idx_pt is not None: wrap_idx_pt(j, current)" and its like.
IdxPtHead(st, j) ==
    Called(SetHead(st, 0, j, wrap_idx_pt(j, HeadRow(st, 0, j))), "idx_pt", "current")
IdxPtTail(st, k) ==
    Called(SetTail(st, 0, k, wrap_idx_pt(k, TailRow(st, 0, k))), "idx_pt", "other")
PtHead(st, j) == Called(SetHead(st, 0, j, wrap_pt(HeadRow(st, 0, j))), "pt", "current")
PtTail(st, k) == Called(SetTail(st, 0, k, wrap_pt(TailRow(st, 0, k))), "pt", "other")

\* Variant of GradHooksCalled: wrap_grad is called before wrap_idx_grad.
GradHooksSwapped(st, both) ==
    IF both
    THEN Called(Called(Called(Called(st, "grad", "current"), "grad", "other"),
                       "idx_grad", "current"), "idx_grad", "other")
    ELSE Called(Called(st, "grad", "current"), "idx_grad", "current")

\* The calls of the gradient hooks, in the order of the code: with both
\* points moving, wrap_idx_grad(j, ...), wrap_idx_grad(k, ...),
\* wrap_grad(current, ...), wrap_grad(other, ...).
GradHooksCalled(st, both) ==
    IF both
    THEN Called(Called(Called(Called(st, "idx_grad", "current"), "idx_grad", "other"),
                       "grad", "current"), "grad", "other")
    ELSE Called(Called(st, "idx_grad", "current"), "grad", "current")

\* grad_d after the gradient hooks (the raw gradient when none is registered).
HeadGrad(st, j, raw) ==
    IF grad_mods
    THEN wrap_grad(HeadRow(st, 0, j), wrap_idx_grad(j, HeadRow(st, 0, j), raw))
    ELSE raw

\* Variant of TailStep: the index hook is not applied to other_grad.
TailStepUnpinned(st, k, al, raw) ==
    IF grad_mods
    THEN Step(al, wrap_grad(TailRow(st, 0, k), Neg(raw)))
    ELSE Neg(Step(al, raw))

\* The step of the tail point of a move_other edge: alpha * clip(other_grad)
\* after the hooks on other_grad = -grad_d, or -delta without gradient hooks.
TailStep(st, k, al, raw) ==
    IF grad_mods
    THEN Step(al, wrap_grad(TailRow(st, 0, k),
                            wrap_idx_grad(k, TailRow(st, 0, k), Neg(raw))))
    ELSE Neg(Step(al, raw))

\* The attractive update of a firing edge (j, k) with raw gradient
\* grad_coeff * (current - other): the move_other / _grad_mods branches, then
\* the point hooks.
EuclidMove(st, j, k, al, raw) ==
    IF move_other
    THEN PtTail(PtHead(IdxPtTail(IdxPtHead(
             MoveTail(MoveHead(GradHooksCalled(st, TRUE), 0, j,
                               Step(al, HeadGrad(st, j, raw))),
                      0, k, TailStep(st, k, al, raw)), j), k), j), k)
    ELSE PtHead(IdxPtHead(MoveHead(GradHooksCalled(st, FALSE), 0, j,
                                   Step(al, HeadGrad(st, j, raw))), j), j)

EuclidPositive(st, j, k, al) ==
    EuclidMove(st, j, k, al,
               RawGrad(AttractiveCoeff(rdist(HeadRow(st, 0, j), TailRow(st, 0, k))),
                       HeadRow(st, 0, j), TailRow(st, 0, k)))

\* The repulsive raw gradient: grad_coeff * (current - other) if
\* grad_coeff > 0.0, else 4.0 on every axis.
NegativeCoeff(D) == IF D > 0 THEN RepulsiveCoeff(D) ELSE <<0, 1, 1>>
NegativeRaw(coeff, cur, oth) ==
    IF coeff[1] > 0 THEN RawGrad(coeff, cur, oth) ELSE [d \in Dims |-> 4 * S]

\* Variant of EuclidRepulse: the arm under "if False:" taken as
\* "if move_other:", which moves the sampled point as well.
EuclidRepulseMoveOther(st, j, k, al, D) ==
    IF D = 0 /\ j = k
    THEN Logged(st, "skip", "current")
    ELSE EuclidMove(st, j, k, al,
                    NegativeRaw(NegativeCoeff(D), HeadRow(st, 0, j), TailRow(st, 0, k)))

\* One negative sample of head j against the sampled k, at squared distance
\* D: the "else" arm of "if False:" (the sampled point is never moved);
\* "elif j == k: continue" when D = 0.
EuclidRepulse(st, j, k, al, D) ==
    IF D = 0 /\ j = k
    THEN Logged(st, "skip", "current")
    ELSE PtHead(IdxPtHead(
             MoveHead(GradHooksCalled(st, FALSE), 0, j,
                      Step(al, HeadGrad(st, j,
                               NegativeRaw(NegativeCoeff(D), HeadRow(st, 0, j),
                                           TailRow(st, 0, k))))), j), j)

\* k = tau_rand_int(rng_state) % n_vertices
Draw(st) == [st EXCEPT !.rng = TauRandInt(@), !.u = @ + 1]

EuclidNegative(st, j, al) ==
    EuclidRepulse(Draw(st), j, Draw(st).rng % NVertices, al,
                  rdist(HeadRow(st, 0, j), TailRow(st, 0, Draw(st).rng % NVertices)))

RECURSIVE EuclidNegLoop(_, _, _, _)
EuclidNegLoop(st, j, al, cnt) ==
    IF cnt <= 0 THEN st
    ELSE EuclidNegLoop(EuclidNegative(st, j, al), j, al, cnt - 1)

\* "epoch_of_next_sample[k] += epochs_per_sample[k]" of the sequential kernel's
\* move_other branch: k is the tail VERTEX of the edge, used as an index into
\* the per-edge arrays.  The compiled kernel does no bounds check, so for
\* k >= edge count the load and the store fall outside both arrays: either
\* nothing the run reads is hit (ub = "benign") or the process dies ("crash").
BumpTailEntry(st, k, ub) ==
    IF k \in DOMAIN st.eons[0]
    THEN [st EXCEPT !.eons[0][k] = @ + epochs_per_sample[0][k]]
    ELSE IF ub = "crash" THEN [st EXCEPT !.crashed = TRUE] ELSE st

\* epoch_of_next_sample[i] += epochs_per_sample[i]
BumpOwnEntry(st, m, i) == [st EXCEPT !.eons[m][i] = @ + epochs_per_sample[m][i]]

\* The negative samples of edge i of the Euclidean kernels ("continue" when
\* n_neg_samples <= 0) and the update of epoch_of_next_negative_sample[i].
EuclidNegatives(st, i, j, al, n_neg_samples) ==
    IF n_neg_samples <= 0
    THEN [st |-> st, fired |-> TRUE, drawn |-> 0]
    ELSE [st |-> [EuclidNegLoop(st, j, al, n_neg_samples)
                    EXCEPT !.eonns[0][i] =
                        @ + n_neg_samples * epochs_per_negative_sample[0][i]],
          fired |-> TRUE, drawn |-> n_neg_samples]

\* What follows the attractive update of edge i: the schedule update and the
\* negative samples.
EuclidAfterPositive(st, i, j, nn, al) ==
    EuclidNegatives(BumpOwnEntry(st, 0, i), i, j, al,
                    NNegSamples(nn, st.eonns[0][i], epochs_per_negative_sample[0][i]))

\* The sequential kernel after line "epoch_of_next_sample[k] += ...".
EuclidAfterBump(st, i, nn, al) ==
    IF st.crashed
    THEN [st |-> st, fired |-> TRUE, drawn |-> 0]
    ELSE EuclidAfterPositive(st, i, head[0][i], nn, al)

\* One iteration of "for i in numba.prange(epochs_per_sample.shape[0])" of
\* _optimize_layout_euclidean_single_epoch (parallel=False).
EuclidEdge(st, i, nn, al, ub) ==
    IF ~Due(st.eons[0][i], nn)
    THEN [st |-> st, fired |-> FALSE, drawn |-> 0]
    ELSE EuclidAfterBump(
             IF move_other
             THEN BumpTailEntry(EuclidPositive(st, head[0][i], tail[0][i], al),
                                tail[0][i], ub)
             ELSE EuclidPositive(st, head[0][i], tail[0][i], al),
             i, nn, al)

\* Variant of EuclidParaEdge: the iteration also advances the schedule entry
\* at the tail vertex, as the sequential kernel does.
EuclidParaEdgeTailBump(st, i, nn, al) == EuclidEdge(st, i, nn, al, "benign")

\* One iteration of the prange loop of
\* _optimize_layout_euclidean_single_epoch_para (parallel=True).
EuclidParaEdge(st, i, nn, al) ==
    IF ~Due(st.eons[0][i], nn)
    THEN [st |-> st, fired |-> FALSE, drawn |-> 0]
    ELSE EuclidAfterPositive(EuclidPositive(st, head[0][i], tail[0][i], al),
                             i, head[0][i], nn, al)

\* The calls of output_metric are counted in st.metric. A firing edge of
\* the generic kernel calls it for (current, other) and for (other, current);
\* a firing edge of the inverse kernel calls it for (current, other) only.
Measured(st, calls) == [st EXCEPT !.metric = @ + calls]
InverseEdgeMetricCallsTwice == 1 + 1
GenericEdgeMetricCalls == 1 + 1
InverseEdgeMetricCalls == 1

\* ------------------------------------------- output metric (Generic, Inverse)
\* output_metric(x, y) -> (distance, gradient).  The injected callback of the
\* model is the Manhattan metric with gradient (umap/distances.py):
\* distance sum |x[d] - y[d]| (units 1/S), gradient sign(x[d] - y[d]) (units 1/S).
Sign(x) == IF x > 0 THEN 1 ELSE IF x < 0 THEN -1 ELSE 0
MetricDist(x, y) == SumTo([d \in DOMAIN x |-> Abs(x[d] - y[d])], dim - 1)
MetricGrad(x, y) == [d \in Dims |-> S * Sign(x[d] - y[d])]

\* X * g / (dist + 1e-6) for X = xnum / xden, on a gradient component g:
\* rounded toward zero at 1/1000 of a grid step, then to the grid.
OverDist(xnum, xden, g, Dm) ==
    TruncDiv(TruncDiv(xnum * g * S * 1000, xden) * 1000, Dm * 1000000 + S)

\* grad_coeff * grad_dist_output[d] of a firing edge:
\* w_l = 1 / (1 + a dist^(2b)) if dist > 0 else 1; 2b (w_l - 1) / (dist + 1e-6)
GenericAttract(g, Dm) ==
    IF Dm > 0
    THEN OverDist(-(2 * b * a * Dm * Dm), S * S + a * Dm * Dm, g, Dm)
    ELSE 0

\* gamma 2b w_l / (dist + 1e-6) of a negative sample
GenericRepulse(g, Dm) ==
    IF Dm > 0
    THEN OverDist(gamma * 2 * b * S * S, S * S + a * Dm * Dm, g, Dm)
    ELSE OverDist(gamma * 2 * b, 1, g, Dm)

\* ---------------------------------------------------------- Generic kernel
GenericNegative(st, j, al) ==
    LET r == TauRandInt(st.rng)
        k == r % NVertices
        st0 == [st EXCEPT !.rng = r, !.metric = @ + 1]
        cur == HeadRow(st0, 0, j)
        oth == TailRow(st0, 0, k)
        Dm == MetricDist(cur, oth)
        gr == MetricGrad(cur, oth)
    IN  IF Dm = 0 /\ j = k
        THEN st0
        ELSE SetHead(st0, 0, j,
                [d \in Dims |-> cur[d] + Scale(al, clip(GenericRepulse(gr[d], Dm)))])

RECURSIVE GenericNegLoop(_, _, _, _)
GenericNegLoop(st, j, al, cnt) ==
    IF cnt <= 0 THEN st
    ELSE GenericNegLoop(GenericNegative(st, j, al), j, al, cnt - 1)

\* One iteration of the edge loop of _optimize_layout_generic_single_epoch:
\* "for p in range(n_neg_samples)" runs no sample for n_neg_samples <= 0, and
\* the schedule entry is advanced by n_neg_samples * epochs_per_negative_sample
\* whatever the sign of n_neg_samples.
GenericEdge(st, i, nn, al) ==
    IF ~Due(st.eons[0][i], nn)
    THEN [st |-> st, fired |-> FALSE, drawn |-> 0]
    ELSE LET j == head[0][i]
             k == tail[0][i]
             cur == HeadRow(st, 0, j)
             oth == TailRow(st, 0, k)
             Dm == MetricDist(cur, oth)
             gr == MetricGrad(cur, oth)
             rev == MetricGrad(oth, cur)
             st1 == SetHead(Measured(st, GenericEdgeMetricCalls), 0, j,
                      [d \in Dims |-> cur[d] + Scale(al, clip(GenericAttract(gr[d], Dm)))])
             st2 == IF move_other
                    THEN SetTail(st1, 0, k,
                           [d \in Dims |-> TailRow(st1, 0, k)[d]
                                             + Scale(al, clip(GenericAttract(rev[d], Dm)))])
                    ELSE st1
             st3 == [st2 EXCEPT !.eons[0][i] = @ + epochs_per_sample[0][i]]
             n_neg_samples ==
                 NNegSamples(nn, st3.eonns[0][i], epochs_per_negative_sample[0][i])
         IN  [st |-> [GenericNegLoop(st3, j, al, n_neg_samples)
                        EXCEPT !.eonns[0][i] =
                            @ + n_neg_samples * epochs_per_negative_sample[0][i]],
              fired |-> TRUE,
              drawn |-> IF n_neg_samples > 0 THEN n_neg_samples ELSE 0]

\* One iteration of the edge loop of optimize_layout_generic_original: one
\* output_metric call per firing edge, and under move_other the tail point
\* gets the head's grad_d ("other[d] += grad_d * alpha").
GenericOriginalEdge(st, i, nn, al) ==
    IF ~Due(st.eons[0][i], nn)
    THEN [st |-> st, fired |-> FALSE, drawn |-> 0]
    ELSE LET j == head[0][i]
             k == tail[0][i]
             cur == HeadRow(st, 0, j)
             oth == TailRow(st, 0, k)
             Dm == MetricDist(cur, oth)
             gr == MetricGrad(cur, oth)
             st1 == SetHead(Measured(st, 1), 0, j,
                      [d \in Dims |-> cur[d] + Scale(al, clip(GenericAttract(gr[d], Dm)))])
             st2 == IF move_other
                    THEN SetTail(st1, 0, k,
                           [d \in Dims |-> TailRow(st1, 0, k)[d]
                                             + Scale(al, clip(GenericAttract(gr[d], Dm)))])
                    ELSE st1
             st3 == [st2 EXCEPT !.eons[0][i] = @ + epochs_per_sample[0][i]]
             n_neg_samples ==
                 NNegSamples(nn, st3.eonns[0][i], epochs_per_negative_sample[0][i])
         IN  [st |-> [GenericNegLoop(st3, j, al, n_neg_samples)
                        EXCEPT !.eonns[0][i] =
                            @ + n_neg_samples * epochs_per_negative_sample[0][i]],
              fired |-> TRUE,
              drawn |-> IF n_neg_samples > 0 THEN n_neg_samples ELSE 0]

\* ---------------------------------------------------------- Inverse kernel
\* weight[i] = 1.0, sigmas[k] = 1.0, rhos[k] = 0.0 for every edge and vertex.
\* -(1 / (w_l * sigmas[k] + 1e-6)) on a gradient component g
InverseAttract(g) == TruncDiv(-(1000000 * g), 1000000 + 1)

\* exp(-dist / (sigma + 1e-6)), in units of 1/100000, for dist = Dm / S > 0:
\* exp(-1/4) = 0.7788 to the power Dm
RECURSIVE ExpNegDist(_)
ExpNegDist(Dm) ==
    IF Dm <= 0 THEN 100000 ELSE (ExpNegDist(Dm - 1) * 7788) \div 10000

\* -gamma * ((0 - w_h) / ((1 - w_h) * sigmas[k] + 1e-6)) on a gradient component,
\* w_h = exp(-max(dist - rhos[k], 1e-6) / (sigmas[k] + 1e-6))
InverseRepulse(g, Dm) ==
    IF Dm > 0
    THEN TruncDiv(10 * gamma * ExpNegDist(Dm) * g, (100000 - ExpNegDist(Dm)) * 10 + 1)
    ELSE gamma * 500000 * g

InverseNegative(st, j, al) ==
    LET r == TauRandInt(st.rng)
        k == r % NVertices
        st0 == [st EXCEPT !.rng = r, !.metric = @ + 1]
        cur == HeadRow(st0, 0, j)
        oth == TailRow(st0, 0, k)
        Dm == MetricDist(cur, oth)
        gr == MetricGrad(cur, oth)
    IN  SetHead(st0, 0, j,
           [d \in Dims |-> cur[d] + Scale(al, clip(InverseRepulse(gr[d], Dm)))])

RECURSIVE InverseNegLoop(_, _, _, _)
InverseNegLoop(st, j, al, cnt) ==
    IF cnt <= 0 THEN st
    ELSE InverseNegLoop(InverseNegative(st, j, al), j, al, cnt - 1)

\* One iteration of the edge loop of _optimize_layout_inverse_single_epoch.
InverseEdge(st, i, nn, al) ==
    IF ~Due(st.eons[0][i], nn)
    THEN [st |-> st, fired |-> FALSE, drawn |-> 0]
    ELSE LET j == head[0][i]
             k == tail[0][i]
             cur == HeadRow(st, 0, j)
             oth == TailRow(st, 0, k)
             gr == MetricGrad(cur, oth)
             st1 == SetHead(Measured(st, InverseEdgeMetricCalls), 0, j,
                      [d \in Dims |-> cur[d] + Scale(al, clip(InverseAttract(gr[d])))])
             st2 == IF move_other
                    THEN SetTail(st1, 0, k,
                           [d \in Dims |-> TailRow(st1, 0, k)[d]
                                             + Scale(al, -clip(InverseAttract(gr[d])))])
                    ELSE st1
             st3 == [st2 EXCEPT !.eons[0][i] = @ + epochs_per_sample[0][i]]
             n_neg_samples ==
                 NNegSamples(nn, st3.eonns[0][i], epochs_per_negative_sample[0][i])
         IN  [st |-> [InverseNegLoop(st3, j, al, n_neg_samples)
                        EXCEPT !.eonns[0][i] =
                            @ + n_neg_samples * epochs_per_negative_sample[0][i]],
              fired |-> TRUE,
              drawn |-> IF n_neg_samples > 0 THEN n_neg_samples ELSE 0]

\* ---------------------------------------------------------- Aligned kernel
\* relations[m, offset + window_size, v]: vertex v of embedding m corresponds
\* to vertex v of each neighbouring embedding, except the last vertex, which
\* has no correspondence (-1).  regularisation_weights are all 1.0,
\* lambda_ = 1/2, window_size = (relations.shape[1] - 1) // 2 = 1.
window_size == 1
lambda_ == <<1, 2>>
relations(m, col, v) == IF v = NVertices - 1 THEN -1 ELSE v
regularisation_weights(m, col, v) == 1

\* np.exp(-(np.abs(offset) - 1)), in thousandths
RECURSIVE ExpNegInt(_)
ExpNegInt(t) == IF t <= 0 THEN 1000 ELSE (ExpNegInt(t - 1) * 368) \div 1000

\* for offset in range(-window_size, window_size)
AlignedOffsets == (-window_size) .. (window_size - 1)

\* One term of the cross-embedding correction of vertex v of embedding m at
\* coordinate x (dimension d), or 0 when the offset contributes nothing.
AlignedTerm(st, m, v, x, d, offset) ==
    LET neighbor_m == m + offset
        identified_index == relations(m, offset + window_size, v)
    IN  IF n_embeddings > neighbor_m /\ neighbor_m >= 0 /\ 0 # offset
           /\ identified_index >= 0
        THEN clip(TruncDiv(lambda_[1] * ExpNegInt(Abs(offset) - 1)
                             * regularisation_weights(m, offset + window_size, v)
                             * (x - st.he[neighbor_m][identified_index][d]),
                           lambda_[2] * 1000))
        ELSE 0

RECURSIVE AlignedSum(_, _, _, _, _, _)
AlignedSum(st, m, v, x, d, offs) ==
    IF offs = {} THEN 0
    ELSE LET o == CHOOSE o \in offs : TRUE
         IN  AlignedTerm(st, m, v, x, d, o) + AlignedSum(st, m, v, x, d, offs \ {o})

AlignedNegative(st, m, j, al) ==
    LET r == TauRandInt(st.rng)
        k == r % NVertices
        st0 == [st EXCEPT !.rng = r]
        cur == HeadRow(st0, m, j)
        oth == TailRow(st0, m, k)
        D == rdist(cur, oth)
    IN  IF D = 0 /\ j = k
        THEN st0
        ELSE LET coeff == IF D > 0 THEN RepulsiveCoeff(D) ELSE <<0, 1, 1>>
             IN  SetHead(st0, m, j,
                    [d \in Dims |->
                        LET g0 == IF coeff[1] > 0
                                  THEN clip(Times(coeff, cur[d] - oth[d]))
                                  ELSE 4 * S
                            grad_d == g0 - AlignedSum(st0, m, j, cur[d], d, AlignedOffsets)
                        IN  cur[d] + Scale(al, clip(grad_d))])

RECURSIVE AlignedNegLoop(_, _, _, _, _)
AlignedNegLoop(st, m, j, al, cnt) ==
    IF cnt <= 0 THEN st
    ELSE AlignedNegLoop(AlignedNegative(st, m, j, al), m, j, al, cnt - 1)

\* One iteration "for m in embedding_order" of edge index i of
\* _optimize_layout_aligned_euclidean_single_epoch.  In the move_other block
\* the correction of the tail point is subtracted from grad_d, which is not
\* read again, so other_grad_d is applied as first computed.
AlignedEdge(st, m, i, nn, al) ==
    IF ~(i \in DOMAIN st.eons[m] /\ Due(st.eons[m][i], nn))
    THEN [st |-> st, fired |-> FALSE, drawn |-> 0]
    ELSE LET j == head[m][i]
             k == tail[m][i]
             cur == HeadRow(st, m, j)
             oth == TailRow(st, m, k)
             coeff == AttractiveCoeff(rdist(cur, oth))
             st1 == SetHead(st, m, j,
                      [d \in Dims |->
                          LET grad_d == clip(Times(coeff, cur[d] - oth[d]))
                                          - AlignedSum(st, m, j, cur[d], d, AlignedOffsets)
                          IN  cur[d] + Scale(al, clip(grad_d))])
             st2 == IF move_other
                    THEN SetTail(st1, m, k,
                           [d \in Dims |->
                               LET o1 == TailRow(st1, m, k)
                                   c1 == HeadRow(st1, m, j)
                                   other_grad_d == clip(Times(coeff, o1[d] - c1[d]))
                               IN  o1[d] + Scale(al, clip(other_grad_d))])
                    ELSE st1
             st3 == [st2 EXCEPT !.eons[m][i] = @ + epochs_per_sample[m][i]]
             n_neg_samples ==
                 IF epochs_per_negative_sample[m][i] > 0
                 THEN NNegSamples(nn, st3.eonns[m][i], epochs_per_negative_sample[m][i])
                 ELSE 0
         IN  [st |-> [AlignedNegLoop(st3, m, j, al, n_neg_samples)
                        EXCEPT !.eonns[m][i] =
                            @ + n_neg_samples * epochs_per_negative_sample[m][i]],
              fired |-> TRUE,
              drawn |-> IF n_neg_samples > 0 THEN n_neg_samples ELSE 0]

\* ------------------------------------------------------------- the inputs
\* Edge lists: "ring" has edge i = (i, i + 1); "mirror" has edge i = (i, ne - 1 - i).
\* A ring's last tail vertex is the edge count; every mirror tail is below it.
HeadOf(shape, ne, i) == i % NVertices
TailOf(shape, ne, i) ==
    CASE shape = "ring" -> (i + 1) % NVertices
      [] shape = "skip" -> (i + 2) % NVertices
      [] OTHER -> (ne - 1 - i) % NVertices

\* epochs_per_sample: 1.0 everywhere, 2.0 everywhere, or 1.0, 1.5, 2.0, ...
\* rising or falling along the edge list.
EpsOf(pat, ne, i) ==
    CASE pat = "flat" -> TU
      [] pat = "slow" -> 2 * TU
      [] pat = "up" -> TU + i * (TU \div 2)
      [] OTHER -> TU + (ne - 1 - i) * (TU \div 2)

\* Initial placements: "spread" puts vertex v at v (+ m in embedding m) on
\* every axis; "pair" makes vertices 2q and 2q + 1 coincide.
CoordOf(pat, m, v, d) ==
    IF pat = "spread" THEN S * (v + m) ELSE S * ((v \div 2) + m)

\* Number of edges of embedding m (the aligned driver's last embedding has
\* one edge fewer when there is more than one).
EdgesOf(c, m) == IF c.kernel = "aligned" /\ m = 2 /\ c.ne > 1 THEN c.ne - 1 ELSE c.ne

Kernels == {"euclidean", "euclidean_para", "generic", "inverse", "aligned"}
EuclideanKernels == {"euclidean", "euclidean_para"}

\* The pin_mask argument: None, a constraints dict with the given keys (its
\* functions pin the given points), or an array of the given shape (zero at
\* the pinned points).
NoMask == [kind |-> "none", keys |-> {}, shape |-> <<>>, pins |-> {}]
MaskDict(keys, pins) == [kind |-> "dict", keys |-> keys, shape |-> <<>>, pins |-> pins]
MaskArray(shape, pins) == [kind |-> "array", keys |-> {}, shape |-> shape, pins |-> pins]
Mask1D(pins) == MaskArray(<<NVertices>>, pins)

NoHooks == [pin_mask |-> NoMask, output_constrain |-> {}]

\* The constraint configurations of optimize_layout_euclidean that are run.
HookConfigs ==
    { NoHooks,
      [pin_mask |-> Mask1D({0}), output_constrain |-> {}],
      [pin_mask |-> Mask1D({1}), output_constrain |-> {}],
      [pin_mask |-> Mask1D({1}), output_constrain |-> {"grad"}],
      [pin_mask |-> MaskDict({"idx_pt"}, {1}), output_constrain |-> {}],
      [pin_mask |-> NoMask, output_constrain |-> {"grad"}],
      [pin_mask |-> NoMask, output_constrain |-> {"pt"}],
      [pin_mask |-> NoMask, output_constrain |-> {"final_pt"}],
      [pin_mask |-> NoMask, output_constrain |-> {"epoch_pt"}],
      [pin_mask |-> NoMask, output_constrain |-> {"epoch_pt", "final_pt"}] }

\* Every combination of hooks, for the order in which a kernel calls them.
AllHookConfigs ==
    { [pin_mask |-> MaskDict(ks, {1}), output_constrain |-> oc] :
        ks \in SUBSET {"idx_pt", "idx_grad"}, oc \in SUBSET {"grad", "pt"} }

\* pin_mask arguments of every form: dicts with and without a key that is
\* not a constraint key, arrays of the right and of other shapes.
MaskVariety(d) ==
    { MaskDict(ks, {1}) : ks \in SUBSET {"idx_pt", "idx_grad", "epoch"} }
      \cup { MaskArray(sh, {1}) :
               sh \in { <<>>, <<NVertices>>, <<NVertices - 1>>, <<NVertices + 1>>,
                        <<NVertices, d>>, <<NVertices, d + 1>>, <<NVertices - 1, d>>,
                        <<d, NVertices>>, <<NVertices, d, 1>> } }

\* Schedule variety, on every kernel.
ScheduleConfigs ==
    [kernel : Kernels, mo : BOOLEAN, ne : 1 .. MaxEdges, shape : {"ring", "mirror"},
     eps : {"flat", "slow", "down"}, nsr : {<<1, 2>>, <<4, 1>>},
     N : 0 .. MaxEpochs, seed : {3}, emb : {"spread"},
     dim : {1}, aliased : {TRUE}, hk : {NoHooks}, gamma : {1}]

\* Constraint variety, on the Euclidean kernels.
ConstraintConfigs ==
    [kernel : EuclideanKernels, mo : BOOLEAN, ne : {MaxEdges},
     shape : {"ring", "mirror"}, eps : {"down"}, nsr : {<<2, 1>>},
     N : {0, MaxEpochs}, seed : {3}, emb : {"spread", "pair"},
     dim : {1}, aliased : {TRUE}, hk : HookConfigs, gamma : {1}]

\* Every hook combination, on a short run of the Euclidean kernels.
HookOrderConfigs ==
    [kernel : EuclideanKernels, mo : BOOLEAN, ne : {MaxEdges},
     shape : {"ring", "mirror"}, eps : {"down"}, nsr : {<<2, 1>>},
     N : {MaxEpochs}, seed : {0, 3}, emb : {"pair"},
     dim : {1}, aliased : {TRUE}, hk : AllHookConfigs, gamma : {1}]

\* pin_mask variety, on optimize_layout_euclidean.
MaskConfigs ==
    [kernel : EuclideanKernels, mo : {FALSE}, ne : {1}, shape : {"ring"},
     eps : {"flat"}, nsr : {<<2, 1>>}, N : {0, MaxEpochs - 1}, seed : {0},
     emb : {"spread"}, dim : {2}, aliased : {TRUE},
     hk : [pin_mask : MaskVariety(2), output_constrain : {{}}], gamma : {1}]

\* The parallel kernel in one, two and three dimensions, with and without
\* a gradient hook.
ScratchConfigs ==
    [kernel : {"euclidean_para"}, mo : BOOLEAN, ne : {MaxEdges}, shape : {"ring"},
     eps : {"down"}, nsr : {<<2, 1>>}, N : {MaxEpochs}, seed : {3},
     emb : {"spread"}, dim : {1, 2, 3}, aliased : {TRUE},
     hk : {NoHooks, [pin_mask |-> NoMask, output_constrain |-> {"grad"}]},
     gamma : {1}]

\* Negative samples without weight (gamma = 0) and with.
GammaConfigs ==
    [kernel : Kernels, mo : {FALSE}, ne : {MaxEdges}, shape : {"ring"},
     eps : {"down"}, nsr : {<<2, 1>>}, N : {MaxEpochs}, seed : {0, 3},
     emb : {"spread", "pair"}, dim : {1}, aliased : {TRUE}, hk : {NoHooks},
     gamma : {0, 1}]

\* Two dimensions, and a tail embedding that is an array of its own.
\* Runs of optimize_layout_euclidean for the density augmentation: edges
\* (0, 2), (1, 3), ... put every point on an edge, so that every phi_sum is
\* positive.
DensmapConfigs ==
    [kernel : EuclideanKernels, mo : BOOLEAN, ne : {MaxEdges}, shape : {"skip"},
     eps : {"flat"}, nsr : {<<2, 1>>}, N : {1, MaxEpochs}, seed : {3},
     emb : {"spread"}, dim : {1}, aliased : {TRUE}, hk : {NoHooks}, gamma : {1}]

\* densmap and densmap_kwds: off, or on with lambda 0 or 1 and frac 0, 1/2
\* or 1.  densmap_kwds["R"] is all zero and var_shift > 0 in these runs:
\* dens_re_cov and both weights are then 0.0 and the density term the kernel
\* adds to grad_coeff is 0.0, whatever phi_sum and re_sum hold.
NoDensmap == [densmap |-> FALSE, lambda |-> 0, frac |-> <<0, 1>>]
DensmapKwdsOf(c) ==
    IF c \in DensmapConfigs
    THEN [densmap : BOOLEAN, lambda : {0, 1}, frac : {<<0, 1>>, <<1, 2>>, <<1, 1>>}]
    ELSE {NoDensmap}

ShapeConfigs ==
    [kernel : Kernels, mo : BOOLEAN, ne : {MaxEdges}, shape : {"ring"},
     eps : {"flat"}, nsr : {<<2, 1>>}, N : {0, MaxEpochs}, seed : {0},
     emb : {"spread", "pair"}, dim : {1, 2}, aliased : BOOLEAN, hk : {NoHooks},
     gamma : {1}]

\* The single-edge scenario: one edge (0, 1), epochs_per_sample = [1.0],
\* negative_sample_rate = 0, at most one epoch.
ScenarioConfigs ==
    [kernel : {"euclidean"}, mo : BOOLEAN, ne : {1}, shape : {"ring"},
     eps : {"flat"}, nsr : {<<0, 1>>}, N : {0, 1}, seed : {0},
     emb : {"spread", "pair"}, dim : {1, 2}, aliased : {TRUE},
     hk : {NoHooks, [pin_mask |-> Mask1D({1}), output_constrain |-> {}]},
     gamma : {1}]

Configs ==
    ScheduleConfigs \cup ConstraintConfigs \cup ShapeConfigs \cup ScenarioConfigs
      \cup HookOrderConfigs \cup MaskConfigs \cup GammaConfigs \cup ScratchConfigs
      \cup DensmapConfigs

\* epochs_per_sample / negative_sample_rate; a zero rate gives numpy's inf,
\* which only the runs of at most one epoch (where no edge is ever due and
\* the quotient is never used) are started with.
Inf == 1000 * 1000
EpnsOf(e, nsr) == IF nsr[1] = 0 THEN Inf ELSE (e * nsr[2]) \div nsr[1]

Embeddings(c) == 0 .. (IF c.kernel = "aligned" THEN 3 ELSE 1) - 1

\* Variant of InitialSchedule: every edge is due from epoch 0.
InitialScheduleZero(eps) == [m \in DOMAIN eps |-> [i \in DOMAIN eps[m] |-> 0]]

\* Variant of InitialSchedule: the first sample of an edge is due one epoch
\* earlier.
InitialScheduleEpochEarly(eps) ==
    [m \in DOMAIN eps |-> [i \in DOMAIN eps[m] |-> eps[m][i] - TU]]

\* epoch_of_next_sample = epochs_per_sample.copy()
InitialSchedule(eps) == eps

NewRun(he, te, eps, epns, seed) ==
    [he |-> he, te |-> te, eons |-> InitialSchedule(eps), eonns |-> epns, rng |-> seed,
     crashed |-> FALSE, log |-> <<>>, u |-> 0, metric |-> 0, maxstep |-> 0]

Init ==
    \E c \in Configs : \E dk \in DensmapKwdsOf(c) :
        LET M == Embeddings(c)
            hd == [m \in M |-> [i \in 0 .. EdgesOf(c, m) - 1 |-> HeadOf(c.shape, EdgesOf(c, m), i)]]
            tl == [m \in M |-> [i \in 0 .. EdgesOf(c, m) - 1 |-> TailOf(c.shape, EdgesOf(c, m), i)]]
            eps == [m \in M |-> [i \in 0 .. EdgesOf(c, m) - 1 |-> EpsOf(c.eps, EdgesOf(c, m), i)]]
            \* epochs_per_negative_sample = epochs_per_sample / negative_sample_rate
            epns == [m \in M |-> [i \in DOMAIN eps[m] |-> EpnsOf(eps[m][i], c.nsr)]]
            he == [m \in M |-> [v \in Vertices |-> [d \in 0 .. c.dim - 1 |->
                        CoordOf(c.emb, m, v, d)]]]
            \* a separate tail array holds the reference points one unit further
            te == [m \in M |-> [v \in Vertices |-> [d \in 0 .. c.dim - 1 |->
                        CoordOf(c.emb, m, v, d) + (IF c.aliased THEN 0 ELSE S)]]]
        IN  /\ kernel = c.kernel
            /\ move_other = c.mo
            /\ n_epochs = c.N
            /\ n_embeddings = Cardinality(M)
            /\ head = hd
            /\ tail = tl
            /\ epochs_per_sample = eps
            /\ negative_sample_rate = c.nsr
            /\ dim = c.dim
            /\ aliased = c.aliased
            /\ init_embedding = he
            /\ gamma = c.gamma
            /\ pin_mask = c.hk.pin_mask
            /\ output_constrain = c.hk.output_constrain
            /\ fixed_pos_idxs = {}
            /\ hooks = {}
            /\ pc = "setup"
            /\ n = 0
            /\ alpha = <<initial_alpha, 1>>
            /\ head_embedding = he
            /\ tail_embedding = te
            /\ epochs_per_negative_sample = epns
            /\ epoch_of_next_sample = InitialSchedule(eps)
            \* epoch_of_next_negative_sample = epochs_per_negative_sample.copy()
            /\ epoch_of_next_negative_sample = epns
            /\ rng_state = c.seed
            /\ embedding_order = [p \in M |-> p]
            /\ pending = {}
            /\ kernel_alpha = <<initial_alpha, 1>>
            /\ fires = [it \in M \X (0 .. c.ne - 1) |-> 0]
            /\ draws = [it \in M \X (0 .. c.ne - 1) |-> 0]
            /\ hook_log = <<>>
            /\ max_step = 0
            /\ metric_calls = [it \in M \X (0 .. c.ne - 1) |-> 0]
            /\ epoch_pt_calls = 0
            /\ final_pt_calls = 0
            /\ scratch = [thr |-> 0, cells |-> {}]
            /\ epoch_start = [he |-> he, te |-> te, rng |-> c.seed,
                               eons |-> InitialSchedule(eps), eonns |-> epns,
                               fires |-> [it \in M \X (0 .. c.ne - 1) |-> 0],
                               draws |-> [it \in M \X (0 .. c.ne - 1) |-> 0]]
            /\ updates = [v \in Vertices |-> 0]
            /\ lost_update = FALSE
            /\ sister = NewRun(he, te, eps, epns, c.seed)
            /\ densmap = dk.densmap
            /\ densmap_kwds = [lambda |-> dk.lambda, frac |-> dk.frac]
            /\ densmap_flag = FALSE
            /\ dens_phi_sum = [v \in Vertices |-> 0]
            /\ dens_re_sum = [v \in Vertices |-> <<1, 1>>]
            /\ dens_re_stats = [v \in Vertices |-> <<1, 1>>]
            /\ dens_epochs = {}
            /\ dens_term_epochs = {}
            /\ twin = NewRun(he, te, eps, epns, c.seed)

\* ------------------------------------------------------------ Epoch Driver
Cur ==
    [he |-> head_embedding, te |-> tail_embedding, eons |-> epoch_of_next_sample,
     eonns |-> epoch_of_next_negative_sample, rng |-> rng_state, crashed |-> FALSE,
     log |-> <<>>, u |-> 0, metric |-> 0, maxstep |-> 0]

\* The observations of a run state start afresh with every loop iteration.
Fresh(st) == [st EXCEPT !.log = <<>>, !.u = 0, !.metric = 0, !.maxstep = 0]

AllItems == DOMAIN fires

\* np.random.seed(abs(rng_state[0])); np.random.shuffle(embedding_order):
\* a permutation of the embeddings fixed by the seed (a rotation).
Shuffled(seed) == [p \in 0 .. n_embeddings - 1 |-> (p + seed) % n_embeddings]

\* Position of work item <<m, i>> in the sequential loop nest:
\* "for i in range(max_n_edges): for m in embedding_order".
Position(it) ==
    it[2] * n_embeddings
      + (CHOOSE p \in DOMAIN embedding_order : embedding_order[p] = it[1])

\* The iterations that may run next: the next one in loop order, or, under
\* numba's prange with parallel=True, any iteration not yet run.
NextItems ==
    IF kernel = "euclidean_para" THEN pending
    ELSE {it \in pending : \A o \in pending : Position(it) <= Position(o)}

\* One loop iteration of the selected kernel on run state st.
KernelEdge(st, it, ub) ==
    CASE kernel = "euclidean" -> EuclidEdge(st, it[2], n, alpha, ub)
      [] kernel = "euclidean_para" -> EuclidParaEdge(st, it[2], n, alpha)
      [] kernel = "generic" -> GenericEdge(st, it[2], n, alpha)
      [] kernel = "inverse" -> InverseEdge(st, it[2], n, alpha)
      [] OTHER -> AlignedEdge(st, it[1], it[2], n, alpha)

\* The same loop iteration in the kernel's sister implementation: the
\* parallel Euclidean kernel (run by one thread) for the sequential one,
\* optimize_layout_generic_original for optimize_layout_generic.
SisterEdge(st, it) ==
    CASE kernel = "euclidean" -> EuclidParaEdge(st, it[2], n, alpha)
      [] kernel = "generic" -> GenericOriginalEdge(st, it[2], n, alpha)
      [] OTHER -> [st |-> st, fired |-> FALSE, drawn |-> 0]

\* Variant of WholeEmbedding: the hook leaves the embedding alone.
WholeEmbeddingSkipped(he) == he

\* epoch_pt / final_pt hooks act on the whole head embedding.
WholeEmbedding(he) == [m \in DOMAIN he |-> [v \in DOMAIN he[m] |-> dimlohi_pt(he[m][v])]]

\* Variant of Anneal: the learning rate of the coming epoch n + 1.
AnnealAhead(nn) == <<initial_alpha * (n_epochs - (nn + 1)), n_epochs>>

\* alpha = initial_alpha * (1.0 - (float(n) / float(n_epochs)))
Anneal(nn) == <<initial_alpha * (n_epochs - nn), n_epochs>>

\* The kernels' entry assertions (Euclidean only):
\* assert np.all(head_embedding == tail_embedding)
EntryAssertHolds(st) ==
    kernel \in EuclideanKernels => (aliased \/ st.he = st.te)

\* The constraint keys of a pin_mask dict that the driver knows.
RecognizedKeys == {"idx_pt", "idx_grad"}

\* Variant of MaskAccepted: an array of any shape is taken.
MaskAcceptedAnyShape(pm) == pm.kind = "dict" => pm.keys \subseteq RecognizedKeys

\* Whether the set-up gets through the pin_mask argument without raising:
\* a dict key that is not recognized is reported with
\* print(" Allowed constraint keys:", recognized), where the name recognized
\* is not defined (NameError); a 1-D array must have one entry per point and
\* a 2-D array the shape of the embedding (assert), any other array raises
\* ValueError.
MaskAccepted(pm) ==
    CASE pm.kind = "none" -> TRUE
      [] pm.kind = "dict" -> pm.keys \subseteq RecognizedKeys
      [] OTHER -> \/ Len(pm.shape) = 1 /\ pm.shape[1] = NVertices
                  \/ Len(pm.shape) = 2 /\ pm.shape = <<NVertices, dim>>

\* The indexed hooks a pin_mask registers: those of the dict, or the
\* gradient hook built from the array (pin_mask_1d, pin_mask_constraint).
MaskHooks(pm) ==
    CASE pm.kind = "none" -> {}
      [] pm.kind = "dict" -> pm.keys \cap RecognizedKeys
      [] OTHER -> {"idx_grad"}

\* optimize_layout_euclidean before its epoch loop: the pin_mask and
\* output_constrain arguments become the hooks of the run, or the call
\* raises. The other drivers take no constraints.
\* dens_init_fn = numba.njit(_optimize_layout_euclidean_densmap_epoch_init,
\* ...): the function is already decorated with @numba.njit().  A numba
\* that refuses to jit a jitted function raises TypeError here; another
\* compiles it again.
DensInitJit == IF densmap THEN {"compiled", "rejected"} ELSE {"compiled"}

\* Variant of DensmapFlag: the epoch fraction is n / n_epochs.
DensmapFlagEpochStart(nn) ==
    /\ densmap
    /\ densmap_kwds.lambda > 0
    /\ nn * densmap_kwds.frac[2]
         > n_epochs * (densmap_kwds.frac[2] - densmap_kwds.frac[1])

\* densmap_flag = densmap and (densmap_kwds["lambda"] > 0)
\*                and (((n + 1) / float(n_epochs)) > (1 - densmap_kwds["frac"]))
DensmapFlag(nn) ==
    /\ densmap
    /\ densmap_kwds.lambda > 0
    /\ (nn + 1) * densmap_kwds.frac[2]
         > n_epochs * (densmap_kwds.frac[2] - densmap_kwds.frac[1])

\* _optimize_layout_euclidean_densmap_epoch_init.
\* phi = 1.0 / (1.0 + a * pow(dist_squared, b)), in thousandths
Phi(D) == (1000 * S * S) \div (S * S + D)
DensDist(he, te, i) ==
    rdist(he[0][head[0][i]], (IF aliased THEN he ELSE te)[0][tail[0][i]])
\* The additions to cell v: edge i adds to its head point and to its tail
\* point.
DensAdds(v) ==
    {c \in (DOMAIN head[0]) \X {"head", "tail"} :
        (IF c[2] = "head" THEN head[0][c[1]] ELSE tail[0][c[1]]) = v}
\* Under parallel=True the loop is a prange and "re_sum[j] += ..." is an
\* unsynchronised load, add and store: additions of the edges in drop are
\* overwritten by another thread's store (one addition at least survives).
DensDrops ==
    IF DensmapFlag(n) /\ kernel = "euclidean_para"
    THEN SUBSET DOMAIN head[0] ELSE {{}}
DensKept(v, drop) ==
    IF {c \in DensAdds(v) : c[1] \notin drop} # {}
    THEN {c \in DensAdds(v) : c[1] \notin drop}
    ELSE DensAdds(v)
RECURSIVE SumPhi(_, _, _)
SumPhi(cs, he, te) ==
    IF cs = {} THEN 0
    ELSE LET c == CHOOSE x \in cs : TRUE
         IN  Phi(DensDist(he, te, c[1])) + SumPhi(cs \ {c}, he, te)
RECURSIVE SumRe(_, _, _)
SumRe(cs, he, te) ==
    IF cs = {} THEN 0
    ELSE LET c == CHOOSE x \in cs : TRUE
         IN  (Phi(DensDist(he, te, c[1])) * DensDist(he, te, c[1])) \div (S * S)
               + SumRe(cs \ {c}, he, te)
\* re_sum.fill(0); phi_sum.fill(0); the loop over the edges; then
\* re_sum[i] = np.log(epsilon + (re_sum[i] / phi_sum[i]))
DensPhiSum(he, te, drop) == [v \in Vertices |-> SumPhi(DensKept(v, drop), he, te)]
DensReSum(he, te, drop) ==
    [v \in Vertices |->
        <<SumRe(DensKept(v, drop), he, te), SumPhi(DensKept(v, drop), he, te)>>]

Setup ==
    /\ pc = "setup"
    /\ IF kernel \in EuclideanKernels
       THEN IF MaskAccepted(pin_mask)
            THEN /\ \E jit \in DensInitJit : pc' = IF jit = "rejected" THEN "error" ELSE "loop"
                 /\ hooks' = MaskHooks(pin_mask) \cup (output_constrain \cap HookKeys)
                 /\ fixed_pos_idxs' = pin_mask.pins
            ELSE /\ pc' = "error"
                 /\ UNCHANGED registered
       ELSE /\ pc' = "loop"
            /\ UNCHANGED registered
    /\ UNCHANGED scratch
    /\ UNCHANGED epoch_start
    /\ UNCHANGED updates
    /\ UNCHANGED lost_update
    /\ UNCHANGED sister
    /\ UNCHANGED densmap_flag
    /\ UNCHANGED dens_phi_sum
    /\ UNCHANGED dens_re_sum
    /\ UNCHANGED dens_re_stats
    /\ UNCHANGED dens_epochs
    /\ UNCHANGED dens_term_epochs
    /\ UNCHANGED <<args, n, alpha, head_embedding, tail_embedding,
                   epochs_per_negative_sample, epoch_of_next_sample,
                   epoch_of_next_negative_sample, rng_state, embedding_order, pending,
                   kernel_alpha, fires, draws, hook_log, max_step, metric_calls, epoch_pt_calls,
                   final_pt_calls, twin>>

\* Top of "for n in tqdm(range(n_epochs))": the kernel is called with the
\* current alpha and epoch number.
BeginEpoch ==
    /\ pc = "loop"
    /\ n < n_epochs
    /\ kernel_alpha' = alpha
    /\ IF EntryAssertHolds(Cur)
       THEN /\ pc' = "kernel"
            /\ pending' = AllItems
            /\ embedding_order' =
                 IF kernel = "aligned" THEN Shuffled(rng_state) ELSE embedding_order
       ELSE /\ pc' = "error"
            /\ UNCHANGED <<pending, embedding_order>>
    /\ UNCHANGED scratch
    /\ epoch_start' = [he |-> head_embedding, te |-> tail_embedding, rng |-> rng_state,
                        eons |-> epoch_of_next_sample,
                        eonns |-> epoch_of_next_negative_sample,
                        fires |-> fires, draws |-> draws]
    /\ updates' = [v \in Vertices |-> 0]
    /\ lost_update' = FALSE
    /\ UNCHANGED sister
    /\ densmap_flag' = DensmapFlag(n)
    /\ \E drop \in DensDrops :
          IF DensmapFlag(n)
          THEN /\ dens_phi_sum' = DensPhiSum(head_embedding, tail_embedding, drop)
               /\ dens_re_sum' = DensReSum(head_embedding, tail_embedding, drop)
               \* dens_re_std, dens_re_mean, dens_re_cov from the new dens_re_sum
               /\ dens_re_stats' = DensReSum(head_embedding, tail_embedding, drop)
               /\ dens_epochs' = dens_epochs \cup {n}
          ELSE UNCHANGED <<dens_phi_sum, dens_re_sum, dens_re_stats, dens_epochs>>
    /\ UNCHANGED dens_term_epochs
    /\ UNCHANGED <<args, registered, n, alpha, head_embedding, tail_embedding,
                   epochs_per_negative_sample, epoch_of_next_sample,
                   epoch_of_next_negative_sample, rng_state, fires, draws, hook_log, max_step,
                   metric_calls, epoch_pt_calls, final_pt_calls, twin>>

\* The indices the sequential Euclidean kernel uses on the schedule arrays
\* in the iteration of edge i: i itself (lines 400, 504, 507-512, 626-628)
\* and, when the edge fires under move_other, the tail vertex k (line 484).
ScheduleIndices(i, fired) ==
    {i} \cup (IF fired /\ move_other THEN {tail[0][i]} ELSE {})

\* The scratch rows of the parallel kernel.
\* dimx = (dim+1024 + 1024-1) // 1024; tmp1 = np.empty((nthr, dimx)), and
\* grad_d = tmp1[thr, 0:dim] is a view of row thr that has min(dim, dimx)
\* entries.  The compiled kernel does no bounds check: grad_d[d] is the cell
\* thr * dimx + d of tmp1, whatever d.  tmp2 (other_grad) is the same.
dimx == (dim + 1024 + 1024 - 1) \div 1024
ScratchRow(thr) == {thr * dimx + c : c \in 0 .. dimx - 1}
ScratchSize == NThreads * dimx
\* "for d in range(dim): grad_d[d] = ..." of a firing edge under _grad_mods
ScratchWrites(thr, fired) ==
    IF kernel = "euclidean_para" /\ fired /\ grad_mods
    THEN {thr * dimx + d : d \in Dims}
    ELSE {}
\* A write past the end of tmp1 hits memory the kernel does not own:
\* nothing the run reads (ub = "benign"), or the process dies ("crash").
ScratchCrash(cells, ub) == ub = "crash" /\ \E c \in cells : c >= ScratchSize

\* The threads of the parallel kernel read and write the shared embedding
\* and PRNG state without synchronisation ("current[d] += ..." is a load, an
\* add and a store).  An iteration that runs while the other threads work
\* may have loaded its rows and the PRNG words before their stores: of the
\* first NThreads iterations of a kernel call, each may compute on the
\* values of the start of the call (overlap) and then store over whatever
\* the others have stored since.
Overlaps ==
    IF kernel = "euclidean_para" /\ Cardinality(AllItems \ pending) < NThreads
    THEN BOOLEAN ELSE {FALSE}
Loaded(overlap) ==
    IF overlap
    THEN [Cur EXCEPT !.he = epoch_start.he, !.te = epoch_start.te, !.rng = epoch_start.rng]
    ELSE Cur
\* The rows an iteration of edge i stores: head row j and, under
\* move_other, tail row k; the other rows keep what memory holds.
StoredHead(overlap, r, i) ==
    IF ~overlap THEN r.st.he
    ELSE [head_embedding EXCEPT ![0] =
            [v \in Vertices |->
                IF r.fired /\ (v = head[0][i] \/ (aliased /\ move_other /\ v = tail[0][i]))
                THEN r.st.he[0][v] ELSE @[v]]]
StoredTail(overlap, r, i) ==
    IF ~overlap THEN r.st.te
    ELSE [tail_embedding EXCEPT ![0] =
            [v \in Vertices |->
                IF r.fired /\ ~aliased /\ move_other /\ v = tail[0][i]
                THEN r.st.te[0][v] ELSE @[v]]]
StoredRng(overlap, r) ==
    IF overlap /\ r.drawn = 0 THEN rng_state ELSE r.st.rng
\* An overlapping iteration loses an update when a row it stores has been
\* stored by another iteration since the start of the call.
LosesUpdate(overlap, r, i) ==
    /\ overlap
    /\ r.fired
    /\ \/ head_embedding[0][head[0][i]] # epoch_start.he[0][head[0][i]]
       \/ /\ move_other
          /\ TailRow(Cur, 0, tail[0][i])
                # TailRow([he |-> epoch_start.he, te |-> epoch_start.te], 0, tail[0][i])

\* The number of "+=" on the row of the given role in an iteration's log.
CountAdds(log, role) ==
    Len(SelectSeq(log, LAMBDA e : e[1] = "add" /\ e[2] = role))
Updated(log, it) ==
    IF kernel \in EuclideanKernels
    THEN [v \in Vertices |->
            updates[v]
              + (IF v = head[0][it[2]] THEN CountAdds(log, "current") ELSE 0)
              + (IF v = tail[0][it[2]] THEN CountAdds(log, "other") ELSE 0)]
    ELSE updates

\* One iteration of the kernel's edge loop.
ProcessEdge ==
    /\ pc = "kernel"
    /\ pending # {}
    /\ \E it \in NextItems, ub \in {"benign", "crash"}, ub2 \in {"benign", "crash"},
          thr \in 0 .. NThreads - 1, overlap \in Overlaps :
          \E r \in {KernelEdge(Loaded(overlap), it, ub)} :
              /\ head_embedding' = StoredHead(overlap, r, it[2])
              /\ tail_embedding' = StoredTail(overlap, r, it[2])
              /\ epoch_of_next_sample' = r.st.eons
              /\ epoch_of_next_negative_sample' = r.st.eonns
              /\ rng_state' = StoredRng(overlap, r)
              /\ updates' = Updated(r.st.log, it)
              /\ sister' = Fresh(SisterEdge(sister, it).st)
              /\ dens_term_epochs' = IF densmap_flag /\ r.fired
                                     THEN dens_term_epochs \cup {n}
                                     ELSE dens_term_epochs
              /\ lost_update' = (lost_update \/ LosesUpdate(overlap, r, it[2]))
              /\ scratch' = IF kernel = "euclidean_para"
                            THEN [thr |-> thr, cells |-> ScratchWrites(thr, r.fired)]
                            ELSE scratch
              /\ pc' = IF r.st.crashed \/ ScratchCrash(ScratchWrites(thr, r.fired), ub)
                       THEN "crashed" ELSE "kernel"
              /\ pending' = pending \ {it}
              /\ fires' = [fires EXCEPT ![it] = @ + (IF r.fired THEN 1 ELSE 0)]
              /\ draws' = [draws EXCEPT ![it] = @ + r.drawn]
              /\ hook_log' = r.st.log
              /\ max_step' = r.st.maxstep
              /\ metric_calls' = [metric_calls EXCEPT ![it] = @ + r.st.metric]
              /\ twin' = IF kernel = "euclidean" /\ ~twin.crashed
                         THEN Fresh(KernelEdge(twin, it, ub2).st)
                         ELSE twin
    /\ UNCHANGED epoch_start
    /\ UNCHANGED densmap_flag
    /\ UNCHANGED dens_phi_sum
    /\ UNCHANGED dens_re_sum
    /\ UNCHANGED dens_re_stats
    /\ UNCHANGED dens_epochs
    /\ UNCHANGED <<args, registered, n, alpha, epochs_per_negative_sample,
                   embedding_order, kernel_alpha, epoch_pt_calls, final_pt_calls>>

\* After the kernel call: the epoch hook of optimize_layout_euclidean
\* ("if outconstrain_epoch_pt is not None: outconstrain_final_pt(head_embedding)":
\* calling None raises TypeError), then the anneal.
EndEpoch ==
    /\ pc = "kernel"
    /\ pending = {}
    /\ IF kernel \in EuclideanKernels /\ "epoch_pt" \in hooks /\ "final_pt" \notin hooks
       THEN /\ pc' = "error"
            /\ UNCHANGED <<n, alpha, head_embedding, twin, sister, final_pt_calls>>
       ELSE /\ pc' = "loop"
            /\ head_embedding' =
                 IF kernel \in EuclideanKernels /\ "epoch_pt" \in hooks
                 THEN WholeEmbedding(head_embedding) ELSE head_embedding
            /\ final_pt_calls' =
                 IF kernel \in EuclideanKernels /\ "epoch_pt" \in hooks
                 THEN final_pt_calls + 1 ELSE final_pt_calls
            /\ twin' =
                 IF kernel \in EuclideanKernels /\ "epoch_pt" \in hooks
                 THEN [twin EXCEPT !.he = WholeEmbedding(@)] ELSE twin
            /\ sister' =
                 IF kernel = "euclidean" /\ "epoch_pt" \in hooks
                 THEN [sister EXCEPT !.he = WholeEmbedding(@)] ELSE sister
            /\ alpha' = Anneal(n)
            /\ n' = n + 1
    /\ UNCHANGED scratch
    /\ UNCHANGED epoch_start
    /\ UNCHANGED updates
    /\ UNCHANGED lost_update
    /\ UNCHANGED densmap_flag
    /\ UNCHANGED dens_phi_sum
    /\ UNCHANGED dens_re_sum
    /\ UNCHANGED dens_re_stats
    /\ UNCHANGED dens_epochs
    /\ UNCHANGED dens_term_epochs
    /\ UNCHANGED <<args, registered, tail_embedding, epochs_per_negative_sample,
                   epoch_of_next_sample, epoch_of_next_negative_sample, rng_state,
                   embedding_order, pending, kernel_alpha, fires, draws, hook_log, max_step,
                   metric_calls, epoch_pt_calls>>

\* After the loop: "if outconstrain_final_pt is not None:
\* outconstrain_final_pt(head_embedding)", then "return head_embedding".
Finish ==
    /\ pc = "loop"
    /\ n = n_epochs
    /\ pc' = "done"
    /\ head_embedding' =
         IF kernel \in EuclideanKernels /\ "final_pt" \in hooks
         THEN WholeEmbedding(head_embedding) ELSE head_embedding
    /\ twin' =
         IF kernel \in EuclideanKernels /\ "final_pt" \in hooks
         THEN [twin EXCEPT !.he = WholeEmbedding(@)] ELSE twin
    /\ final_pt_calls' =
         IF kernel \in EuclideanKernels /\ "final_pt" \in hooks
         THEN final_pt_calls + 1 ELSE final_pt_calls
    /\ UNCHANGED scratch
    /\ UNCHANGED epoch_start
    /\ UNCHANGED updates
    /\ UNCHANGED lost_update
    /\ sister' = IF kernel = "euclidean" /\ "final_pt" \in hooks
                 THEN [sister EXCEPT !.he = WholeEmbedding(@)] ELSE sister
    /\ UNCHANGED densmap_flag
    /\ UNCHANGED dens_phi_sum
    /\ UNCHANGED dens_re_sum
    /\ UNCHANGED dens_re_stats
    /\ UNCHANGED dens_epochs
    /\ UNCHANGED dens_term_epochs
    /\ UNCHANGED <<args, registered, n, alpha, tail_embedding,
                   epochs_per_negative_sample, epoch_of_next_sample,
                   epoch_of_next_negative_sample, rng_state, embedding_order, pending,
                   kernel_alpha, fires, draws, hook_log, max_step, metric_calls, epoch_pt_calls>>

Next == Setup \/ BeginEpoch \/ ProcessEdge \/ EndEpoch \/ Finish

Spec == Init /\ [][Next]_vars

\* ------------------------------------------------------------ Properties
\* C1: in every kernel, an edge visited in epoch n performs its attractive
\* update if and only if epoch_of_next_sample[i] <= n at that moment, and a
\* firing adds exactly epochs_per_sample[i] to epoch_of_next_sample[i].
C1_FiresIffDueAndAddsEps ==
    [][\A it \in DOMAIN fires :
          (/\ pc = "kernel" /\ pc' = "kernel"
           /\ it \in pending /\ it \notin pending'
           /\ it[2] \in DOMAIN epoch_of_next_sample[it[1]])
          => /\ (fires'[it] = fires[it] + 1)
                  <=> (epoch_of_next_sample[it[1]][it[2]] <= n * TU)
             /\ (fires'[it] = fires[it] + 1)
                  => epoch_of_next_sample'[it[1]][it[2]]
                       = epoch_of_next_sample[it[1]][it[2]]
                           + epochs_per_sample[it[1]][it[2]]]_vars

\* C2 (as stated): for every edge and every epoch, whether or not the edge
\* fires, n_neg = floor((n - epoch_of_next_negative_sample[i]) /
\* epochs_per_negative_sample[i]) decides the visit: if n_neg > 0 exactly n_neg
\* samples are drawn and the entry grows by n_neg * epochs_per_negative_sample[i],
\* otherwise nothing is drawn and the entry is unchanged.
C2_NegativesWhetherOrNotFiring ==
    [][\A it \in DOMAIN fires :
          (/\ pc = "kernel" /\ pc' = "kernel"
           /\ it \in pending /\ it \notin pending'
           /\ it[2] \in DOMAIN epoch_of_next_sample[it[1]])
          => IF (n * TU - epoch_of_next_negative_sample[it[1]][it[2]])
                   \div epochs_per_negative_sample[it[1]][it[2]] > 0
             THEN /\ draws'[it] = draws[it]
                       + (n * TU - epoch_of_next_negative_sample[it[1]][it[2]])
                           \div epochs_per_negative_sample[it[1]][it[2]]
                  /\ epoch_of_next_negative_sample'[it[1]][it[2]]
                       = epoch_of_next_negative_sample[it[1]][it[2]]
                           + ((n * TU - epoch_of_next_negative_sample[it[1]][it[2]])
                                \div epochs_per_negative_sample[it[1]][it[2]])
                             * epochs_per_negative_sample[it[1]][it[2]]
             ELSE /\ draws'[it] = draws[it]
                  /\ epoch_of_next_negative_sample'[it[1]][it[2]]
                       = epoch_of_next_negative_sample[it[1]][it[2]]]_vars

\* C2 (amended): negative sampling belongs to the firing: only for an edge
\* that fires in epoch n is n_neg evaluated, and then, if n_neg > 0, exactly
\* n_neg samples are drawn and the entry grows by n_neg *
\* epochs_per_negative_sample[i]; an edge that does not fire, or whose
\* n_neg <= 0, draws nothing and keeps its entry.
C2_NegativesOnlyWhenFiring ==
    [][\A it \in DOMAIN fires :
          (/\ pc = "kernel" /\ pc' = "kernel"
           /\ it \in pending /\ it \notin pending'
           /\ it[2] \in DOMAIN epoch_of_next_sample[it[1]])
          => IF /\ fires'[it] = fires[it] + 1
                /\ (n * TU - epoch_of_next_negative_sample[it[1]][it[2]])
                     \div epochs_per_negative_sample[it[1]][it[2]] > 0
             THEN /\ draws'[it] = draws[it]
                       + (n * TU - epoch_of_next_negative_sample[it[1]][it[2]])
                           \div epochs_per_negative_sample[it[1]][it[2]]
                  /\ epoch_of_next_negative_sample'[it[1]][it[2]]
                       = epoch_of_next_negative_sample[it[1]][it[2]]
                           + ((n * TU - epoch_of_next_negative_sample[it[1]][it[2]])
                                \div epochs_per_negative_sample[it[1]][it[2]])
                             * epochs_per_negative_sample[it[1]][it[2]]
             ELSE /\ draws'[it] = draws[it]
                  /\ epoch_of_next_negative_sample'[it[1]][it[2]]
                       = epoch_of_next_negative_sample[it[1]][it[2]]]_vars

\* C2 witness: after epoch 1 one edge has fired and drawn negative samples,
\* and another was visited in epoch 1 without being due although its
\* quotient for epoch 1 was positive.
C2_Witness ==
    /\ pc = "loop" /\ n = 2
    /\ \E it \in DOMAIN fires : fires[it] > 0 /\ draws[it] > 0
    /\ \E it \in DOMAIN fires :
          /\ it[2] \in DOMAIN epoch_of_next_sample[it[1]]
          /\ fires[it] = 0
          /\ epoch_of_next_sample[it[1]][it[2]] > TU
          /\ (TU - epoch_of_next_negative_sample[it[1]][it[2]])
               \div epochs_per_negative_sample[it[1]][it[2]] > 0

\* C3: no entry of epoch_of_next_sample or epoch_of_next_negative_sample ever
\* decreases across any step of a run, in every kernel (Generic and Inverse
\* add n_neg * epochs_per_negative_sample[i] unguarded).
C3_ScheduleNeverDecreases ==
    [][\A m \in DOMAIN epoch_of_next_sample :
          \A i \in DOMAIN epoch_of_next_sample[m] :
              /\ epoch_of_next_sample'[m][i] >= epoch_of_next_sample[m][i]
              /\ epoch_of_next_negative_sample'[m][i]
                   >= epoch_of_next_negative_sample[m][i]]_vars

\* C3 witness: a Generic run in which an edge has fired with a negative
\* quotient (negative_sample_rate 1/2: the first firing comes before the
\* first negative sample is due), and a Generic run in which both entries of
\* an edge have advanced.
C3_Witness ==
    /\ kernel = "generic"
    /\ \E it \in DOMAIN fires :
          /\ fires[it] > 0
          /\ epoch_of_next_sample[it[1]][it[2]] > epochs_per_sample[it[1]][it[2]]
          /\ \/ /\ negative_sample_rate = <<1, 2>>
                /\ epoch_of_next_negative_sample[it[1]][it[2]] > n * TU
             \/ /\ draws[it] > 0
                /\ epoch_of_next_negative_sample[it[1]][it[2]]
                     > epochs_per_negative_sample[it[1]][it[2]]

\* C4: in a sequential Euclidean run with a 1-D pin mask (and no point
\* hooks), every coordinate of a pinned point keeps its initial value.
C4_PinnedPointNeverMoves ==
    (/\ kernel = "euclidean"
     /\ "idx_grad" \in hooks
     /\ hooks \cap {"idx_pt", "pt", "epoch_pt", "final_pt"} = {})
    => \A p \in fixed_pos_idxs : head_embedding[0][p] = init_embedding[0][p]

\* C4 witness: pinned point 1 has been the tail of a firing move_other edge
\* and the head of a firing edge that drew negative samples, and the free
\* points have moved.
C4_Witness ==
    /\ kernel = "euclidean" /\ move_other
    /\ hooks = {"idx_grad"} /\ fixed_pos_idxs = {1}
    /\ \E it \in DOMAIN fires : fires[it] > 0 /\ tail[0][it[2]] = 1
    /\ \E it \in DOMAIN fires : fires[it] > 0 /\ head[0][it[2]] = 1 /\ draws[it] > 0
    /\ head_embedding[0][0] # init_embedding[0][0]

\* C5 (as stated): with n_epochs = 0 the returned embedding equals the input,
\* for every kernel and every constraint configuration.
C5_ZeroEpochsReturnsInput ==
    (pc = "done" /\ n_epochs = 0) => head_embedding = init_embedding

\* C5 (amended): with n_epochs = 0 the returned embedding equals the input,
\* except that the Euclidean driver with a final_pt hook returns the input
\* with that hook applied once (here: every coordinate clamped into the box).
C5_ZeroEpochsReturnsInputUpToFinalPt ==
    (pc = "done" /\ n_epochs = 0)
    => \A m \in DOMAIN head_embedding : \A v \in Vertices : \A d \in Dims :
          head_embedding[m][v][d] =
              IF kernel \in EuclideanKernels /\ "final_pt" \in hooks
              THEN IF init_embedding[m][v][d] < BoxLo THEN BoxLo
                   ELSE IF init_embedding[m][v][d] > BoxHi THEN BoxHi
                   ELSE init_embedding[m][v][d]
              ELSE init_embedding[m][v][d]

\* C5 witness: a zero-epoch Euclidean run with a final_pt hook has returned
\* an embedding that differs from its input.
C5_Witness ==
    /\ pc = "done" /\ n_epochs = 0
    /\ "final_pt" \in hooks
    /\ head_embedding # init_embedding

\* C6: two sequential Euclidean runs from identical inputs have identical
\* embeddings, schedule arrays and PRNG states after every epoch, and return
\* identical embeddings.
C6_TwoRunsAgree ==
    (kernel = "euclidean" /\ pc \in {"loop", "done"})
    => /\ ~twin.crashed
       /\ twin.he = head_embedding
       /\ twin.te = tail_embedding
       /\ twin.eons = epoch_of_next_sample
       /\ twin.eonns = epoch_of_next_negative_sample
       /\ twin.rng = rng_state

\* C7 (as stated): the kernel invocation of epoch n uses
\* alpha = initial_alpha * (1 - n / n_epochs).
C7_KernelAlphaOfThisEpoch ==
    pc = "kernel"
    => kernel_alpha[1] * n_epochs = initial_alpha * (n_epochs - n) * kernel_alpha[2]

\* C7 (amended): the kernel invocation of epoch 0 uses initial_alpha, and
\* that of epoch n >= 1 uses initial_alpha * (1 - (n - 1) / n_epochs), the
\* value computed at the end of the epoch before.
C7_KernelAlphaOfEpochBefore ==
    pc = "kernel"
    => /\ alpha = kernel_alpha
       /\ IF n = 0
          THEN kernel_alpha[1] = initial_alpha * kernel_alpha[2]
          ELSE kernel_alpha[1] * n_epochs
                 = initial_alpha * (n_epochs - (n - 1)) * kernel_alpha[2]

\* C7 witness: the kernel of the last of three epochs is running with
\* two thirds of initial_alpha.
C7_Witness ==
    /\ pc = "kernel" /\ n = 2 /\ n_epochs = 3
    /\ 3 * kernel_alpha[1] = 2 * initial_alpha * kernel_alpha[2]
    /\ \E it \in DOMAIN fires : it \notin pending /\ fires[it] > 0

\* C8: in a sequential run, an edge with epochs_per_sample[i] <=
\* epochs_per_sample[i'] performs at least as many attractive updates over
\* the run as edge i', with move_other False and True.
C8_SmallerPeriodFiresAtLeastAsOften ==
    (pc = "done" /\ kernel # "euclidean_para")
    => \A it \in DOMAIN fires : \A jt \in DOMAIN fires :
          (/\ it[1] = jt[1]
           /\ it[2] \in DOMAIN epochs_per_sample[it[1]]
           /\ jt[2] \in DOMAIN epochs_per_sample[jt[1]]
           /\ epochs_per_sample[it[1]][it[2]] <= epochs_per_sample[jt[1]][jt[2]])
          => fires[it] >= fires[jt]

\* C9 (as stated): in the scenario (4 points, one edge (0, 1),
\* epochs_per_sample = [1.0], n_epochs = 1, negative_sample_rate = 0,
\* sequential Euclidean, no constraints, move_other): points 0 and 1 end
\* strictly closer than they started unless coincident, and then neither moves.
C9_ScenarioPointsApproach ==
    (/\ pc = "done" /\ kernel = "euclidean" /\ move_other /\ hooks = {}
     /\ n_epochs = 1 /\ negative_sample_rate = <<0, 1>>
     /\ head[0] = (0 :> 0) /\ tail[0] = (0 :> 1)
     /\ epochs_per_sample[0] = (0 :> TU))
    => IF init_embedding[0][0] # init_embedding[0][1]
       THEN rdist(head_embedding[0][0], head_embedding[0][1])
              < rdist(init_embedding[0][0], init_embedding[0][1])
       ELSE /\ head_embedding[0][0] = init_embedding[0][0]
            /\ head_embedding[0][1] = init_embedding[0][1]

\* C9 (amended): in that scenario the single epoch is epoch 0, in which the
\* edge (first due at epoch 1) does not fire: the run returns every point
\* where it started, coincident or not.
C9_ScenarioNothingMoves ==
    (/\ pc = "done" /\ kernel = "euclidean" /\ move_other /\ hooks = {}
     /\ n_epochs = 1 /\ negative_sample_rate = <<0, 1>>
     /\ head[0] = (0 :> 0) /\ tail[0] = (0 :> 1)
     /\ epochs_per_sample[0] = (0 :> TU))
    => /\ head_embedding = init_embedding
       /\ fires[<<0, 0>>] = 0

\* C9 witness: the scenario has run to its end from non-coincident points.
C9_Witness ==
    /\ pc = "done" /\ kernel = "euclidean" /\ move_other /\ hooks = {}
    /\ n_epochs = 1 /\ negative_sample_rate = <<0, 1>>
    /\ head[0] = (0 :> 0) /\ tail[0] = (0 :> 1)
    /\ epochs_per_sample[0] = (0 :> TU)
    /\ init_embedding[0][0] # init_embedding[0][1]

\* C10 (as stated): the scenario with a 1-D pin mask pinning point 1 and
\* non-coincident points: point 1 is unchanged after the run and point 0 has
\* moved.
C10_PinnedScenarioHeadMoves ==
    (/\ pc = "done" /\ kernel = "euclidean" /\ move_other
     /\ hooks = {"idx_grad"} /\ fixed_pos_idxs = {1}
     /\ n_epochs = 1
     /\ head[0] = (0 :> 0) /\ tail[0] = (0 :> 1)
     /\ epochs_per_sample[0] = (0 :> TU)
     /\ init_embedding[0][0] # init_embedding[0][1])
    => /\ head_embedding[0][1] = init_embedding[0][1]
       /\ head_embedding[0][0] # init_embedding[0][0]

\* C10 (amended): in the pinned scenario point 1 is unchanged after the run,
\* and so is point 0: the edge does not fire in the run's only epoch.
C10_PinnedScenarioNeitherMoves ==
    (/\ pc = "done" /\ kernel = "euclidean" /\ move_other
     /\ hooks = {"idx_grad"} /\ fixed_pos_idxs = {1}
     /\ n_epochs = 1
     /\ head[0] = (0 :> 0) /\ tail[0] = (0 :> 1)
     /\ epochs_per_sample[0] = (0 :> TU)
     /\ init_embedding[0][0] # init_embedding[0][1])
    => /\ head_embedding[0][1] = init_embedding[0][1]
       /\ head_embedding[0][0] = init_embedding[0][0]

\* C10 witness: the pinned scenario has run to its end from non-coincident
\* points.
C10_Witness ==
    /\ pc = "done" /\ kernel = "euclidean" /\ move_other
    /\ hooks = {"idx_grad"} /\ fixed_pos_idxs = {1}
    /\ n_epochs = 1
    /\ head[0] = (0 :> 0) /\ tail[0] = (0 :> 1)
    /\ epochs_per_sample[0] = (0 :> TU)
    /\ init_embedding[0][0] # init_embedding[0][1]

\* C11: in the Euclidean kernels every update of a point (the head's
\* attractive update, the tail's under move_other, each negative sample that
\* is not skipped) goes through idx_grad, grad, the clipped and scaled add,
\* idx_pt, pt in this order, each registered hook exactly once and the add
\* once; a skipped negative sample calls no hook and adds nothing. The tail
\* is updated only by the attractive update under move_other.
UpdateOrder == <<"idx_grad", "grad", "add", "idx_pt", "pt">>
EventsOf(log, role, u) == SelectSeq(log, LAMBDA e : e[2] = role /\ e[3] = u)
ExpectedEvents(role, u) ==
    LET order == SelectSeq(UpdateOrder, LAMBDA w : w = "add" \/ w \in hooks)
    IN  [y \in 1 .. Len(order) |-> <<order[y], role, u>>]
C11_HooksInOrder ==
    \A x \in 1 .. Len(hook_log) :
        /\ hook_log[x][2] = "other" => (move_other /\ hook_log[x][3] = 0)
        /\ IF \E y \in 1 .. Len(hook_log) :
                  /\ hook_log[y][1] = "skip"
                  /\ hook_log[y][2] = hook_log[x][2]
                  /\ hook_log[y][3] = hook_log[x][3]
           THEN EventsOf(hook_log, hook_log[x][2], hook_log[x][3])
                  = << <<"skip", "current", hook_log[x][3]>> >>
           ELSE EventsOf(hook_log, hook_log[x][2], hook_log[x][3])
                  = ExpectedEvents(hook_log[x][2], hook_log[x][3])

\* C11 witness: with all four hooks registered, one loop iteration has
\* updated head and tail, has applied a negative sample and skipped another.
C11_Witness ==
    /\ hooks = {"idx_grad", "grad", "idx_pt", "pt"}
    /\ move_other
    /\ \E x \in 1 .. Len(hook_log) : hook_log[x] = <<"pt", "other", 0>>
    /\ \E x \in 1 .. Len(hook_log) : hook_log[x][1] = "pt" /\ hook_log[x][3] > 0
    /\ \E x \in 1 .. Len(hook_log) : hook_log[x][1] = "skip"

\* C12: when an epoch_pt hook is registered (with or without final_pt), the
\* epoch_pt function has been applied to the head embedding exactly once per
\* finished epoch, and the run does not raise.
C12_EpochPtOncePerEpoch ==
    (kernel \in EuclideanKernels /\ "epoch_pt" \in hooks)
    => /\ pc # "error"
       /\ pc \in {"loop", "done"} => epoch_pt_calls = n

\* C13: final_pt is applied exactly once per run, when the last epoch is
\* over and never before, whatever other hooks are registered.
C13_FinalPtOnceAfterLastEpoch ==
    (kernel \in EuclideanKernels /\ "final_pt" \in hooks)
    => final_pt_calls = (IF pc = "done" THEN 1 ELSE 0)

\* C14: with a pin_mask array that is neither 1-D with one entry per point
\* nor 2-D of the embedding's shape, the only step optimize_layout_euclidean
\* takes is the set-up raising an error: no epoch begins and no coordinate,
\* schedule entry or PRNG word is changed.
C14_BadMaskShapeRaisesFirst ==
    [][(/\ kernel \in EuclideanKernels
        /\ pin_mask.kind = "array"
        /\ pin_mask.shape \notin {<<NVertices>>, <<NVertices, dim>>})
       => /\ pc = "setup"
          /\ pc' = "error"
          /\ UNCHANGED <<n, alpha, head_embedding, tail_embedding,
                         epochs_per_negative_sample, epoch_of_next_sample,
                         epoch_of_next_negative_sample, rng_state, fires, draws>>]_vars

\* C14 witness: the call has raised on a 2-D pin_mask with one column too
\* many, before epoch 0 of a run that was to have epochs.
C14_Witness ==
    /\ pc = "error"
    /\ n = 0
    /\ n_epochs > 0
    /\ pin_mask.kind = "array"
    /\ pin_mask.shape = <<NVertices, dim + 1>>
    /\ head_embedding = init_embedding

\* C15: a pin_mask dict with a key other than idx_pt and idx_grad raises no
\* error: the key is ignored after a warning.
C15_UnknownKeyOnlyWarns ==
    (/\ kernel \in EuclideanKernels
     /\ pin_mask.kind = "dict"
     /\ pin_mask.keys \ {"idx_pt", "idx_grad"} # {})
    => pc # "error"

\* C16: optimize_layout_euclidean, sequential or parallel, does not abort
\* when tail_embedding is an array of its own with other contents than
\* head_embedding.
C16_SeparateTailRunsThrough ==
    (/\ kernel \in EuclideanKernels
     /\ ~aliased
     /\ tail_embedding # head_embedding)
    => pc # "error"

\* C17: in every kernel one negative sample of head j changes at most row j
\* of the head embedding: every other row, and so the row of the sampled
\* vertex k' # j, is as before, with and without move_other.
NegativeSampleOf(st, m, j) ==
    CASE kernel \in EuclideanKernels -> EuclidNegative(st, j, alpha)
      [] kernel = "generic" -> GenericNegative(st, j, alpha)
      [] kernel = "inverse" -> InverseNegative(st, j, alpha)
      [] OTHER -> AlignedNegative(st, m, j, alpha)
OnlyHeadRowChanged(before, after, m, j) ==
    /\ after.te = before.te
    /\ \A m2 \in DOMAIN before.he : \A v \in Vertices :
          (m2 # m \/ v # j) => after.he[m2][v] = before.he[m2][v]
C17_NegativeSampleMovesHeadOnly ==
    pc = "kernel"
    => \A m \in DOMAIN head_embedding : \A j \in Vertices :
          OnlyHeadRowChanged(Cur, NegativeSampleOf(Cur, m, j), m, j)

\* C17 witness: in a run under move_other that has drawn samples, a
\* negative sample of head 0 draws another vertex and moves row 0.
C17_Witness ==
    /\ pc = "kernel"
    /\ move_other
    /\ \E it \in DOMAIN draws : draws[it] > 0
    /\ TauRandInt(rng_state) % NVertices # 0
    /\ NegativeSampleOf(Cur, 0, 0).he[0][0] # head_embedding[0][0]

\* C18: in the generic and in the inverse kernel output_metric is called
\* exactly twice for each firing of an edge and once for each negative sample
\* drawn, and not at all for an edge that does not fire.
C18_MetricTwicePerFiringEdge ==
    kernel \in {"generic", "inverse"}
    => \A it \in DOMAIN fires : metric_calls[it] = 2 * fires[it] + draws[it]

\* C18 (amended): output_metric is called once for each negative sample
\* drawn and, for each firing of an edge, twice in the generic kernel and
\* once in the inverse kernel; never for an edge that does not fire.
C18_MetricCallsByKernel ==
    /\ kernel = "generic"
       => \A it \in DOMAIN fires : metric_calls[it] = 2 * fires[it] + draws[it]
    /\ kernel = "inverse"
       => \A it \in DOMAIN fires : metric_calls[it] = fires[it] + draws[it]

\* C18 witness: the inverse kernel has finished a run in which an edge fired
\* and drew negative samples, and another edge never fired.
C18_Witness ==
    /\ kernel = "inverse"
    /\ pc = "done"
    /\ \E it \in DOMAIN fires : fires[it] > 0 /\ draws[it] > 0
    /\ \E it \in DOMAIN fires : fires[it] = 0 /\ metric_calls[it] = 0

\* C19: in every kernel, with no point hook (idx_pt, pt, epoch_pt, final_pt)
\* registered, no single update of a loop iteration changes a coordinate by
\* more than 4 * alpha, whether or not idx_grad or grad hooks rewrite the
\* gradient.
C19_StepAtMostFourAlpha ==
    [][(/\ pc = "kernel"
        /\ pending' # pending
        /\ hooks \cap {"idx_pt", "pt", "epoch_pt", "final_pt"} = {})
       => max_step' * alpha[2] <= 4 * S * alpha[1]]_vars

\* C19 witness: with a gradient hook registered and at a learning rate below
\* the initial one, an update of the last loop iteration of the current
\* epoch has moved a coordinate by the full 4 * alpha.
C19_Witness ==
    /\ pc = "kernel"
    /\ hooks \cap {"idx_grad", "grad"} # {}
    /\ hooks \cap {"idx_pt", "pt", "epoch_pt", "final_pt"} = {}
    /\ alpha[1] < alpha[2]
    /\ pending # AllItems
    /\ max_step > 0
    /\ max_step = TruncDiv(4 * S * alpha[1], alpha[2])

\* C20: a negative sample k' of head j in the Euclidean kernels, without
\* hooks: at squared distance 0 with k' = j nothing moves; at squared
\* distance d > 0 every coordinate moves by
\* alpha * clip(coeff * (current - other)), coeff = 2 gamma b /
\* ((0.001 + d)(a d^b + 1)), for every gamma, so by nothing when gamma = 0;
\* the push of 4.0 * alpha is applied exactly when d = 0 and k' # j.
SampledRow(cur, oth, j, k) ==
    IF rdist(cur, oth) > 0
    THEN [d \in Dims |-> cur[d] + Scale(alpha, clip(Times(RepulsiveCoeff(rdist(cur, oth)),
                                                          cur[d] - oth[d])))]
    ELSE IF k = j THEN cur
    ELSE [d \in Dims |-> cur[d] + Scale(alpha, 4 * S)]
C20_NegativeSampleDelta ==
    (kernel \in EuclideanKernels /\ pc = "kernel" /\ hooks = {})
    => \A j \in Vertices :
          EuclidNegative(Cur, j, alpha).he[0][j]
            = SampledRow(HeadRow(Cur, 0, j),
                         TailRow(Cur, 0, TauRandInt(rng_state) % NVertices),
                         j, TauRandInt(rng_state) % NVertices)

\* C21: in the parallel Euclidean kernel, for every dim >= 1 and every
\* thread, the scratch row of a thread holds at least dim entries, and every
\* write grad_d[d], d < dim, lands in the writing thread's own row.
C21_ScratchRowHoldsDim ==
    (kernel = "euclidean_para" /\ scratch.cells # {})
    => /\ dimx >= dim
       /\ scratch.cells \subseteq ScratchRow(scratch.thr)

\* C22: in the parallel Euclidean kernel without point hooks, whatever the
\* interleaving of the threads' loads and stores, a coordinate of a vertex
\* differs from its value at the start of the epoch by at most 4 * alpha
\* times the number of updates applied to the vertex in the epoch so far.
C22_RaceWithinClipBound ==
    (/\ kernel = "euclidean_para"
     /\ pc = "kernel"
     /\ hooks \cap {"idx_pt", "pt", "epoch_pt", "final_pt"} = {})
    => \A v \in Vertices : \A d \in Dims :
          Abs(head_embedding[0][v][d] - epoch_start.he[0][v][d]) * alpha[2]
            <= 4 * S * alpha[1] * updates[v]

\* C22 witness: at the end of a kernel call in which a thread has stored
\* over another thread's update, a vertex that was updated at least twice
\* is away from where the call found it.
C22_Witness ==
    /\ kernel = "euclidean_para"
    /\ pc = "kernel"
    /\ pending = {}
    /\ hooks = {}
    /\ lost_update
    /\ \E v \in Vertices :
          /\ updates[v] >= 2
          /\ head_embedding[0][v] # epoch_start.he[0][v]

\* C23: the parallel Euclidean kernel run by one thread in edge-array order
\* leaves, after every epoch, the same embedding, schedule arrays and PRNG
\* state as the sequential kernel on the same inputs, with and without
\* move_other.
C23_SingleThreadParaIsSequential ==
    (kernel = "euclidean" /\ pc \in {"loop", "done"})
    => /\ sister.he = head_embedding
       /\ sister.te = tail_embedding
       /\ sister.eons = epoch_of_next_sample
       /\ sister.eonns = epoch_of_next_negative_sample
       /\ sister.rng = rng_state

\* C24: optimize_layout_generic and optimize_layout_generic_original leave
\* the same embeddings and the same schedule arrays on the same inputs, with
\* and without move_other.
C24_GenericIsGenericOriginal ==
    (kernel = "generic" /\ pc \in {"loop", "done"})
    => /\ sister.he = head_embedding
       /\ sister.te = tail_embedding
       /\ sister.eons = epoch_of_next_sample
       /\ sister.eonns = epoch_of_next_negative_sample

\* The head point of edge i of embedding m after its attractive update when
\* the cross-embedding correction runs over the offsets offs.
AlignedHeadWith(st, m, i, al, offs) ==
    LET cur == HeadRow(st, m, head[m][i])
        oth == TailRow(st, m, tail[m][i])
        coeff == AttractiveCoeff(rdist(cur, oth))
    IN  [d \in Dims |->
            cur[d] + Scale(al, clip(clip(Times(coeff, cur[d] - oth[d]))
                                      - AlignedSum(st, m, head[m][i], cur[d], d, offs)))]

\* The tail point of edge i of embedding m after a move_other update in which
\* the tail's own correction is subtracted from its gradient before the clip;
\* c1 is the head point as just moved.
AlignedTailCorrected(st, m, i, al, c1) ==
    LET cur == HeadRow(st, m, head[m][i])
        o1 == TailRow(st, m, tail[m][i])
        coeff == AttractiveCoeff(rdist(cur, o1))
    IN  [d \in Dims |->
            o1[d] + Scale(al, clip(clip(Times(coeff, o1[d] - c1[d]))
                                     - AlignedSum(st, m, tail[m][i], o1[d], d,
                                                  AlignedOffsets)))]

\* The loop iterations of the aligned kernel in which an attractive update
\* and nothing else moves points: edge it fires, draws no negative sample,
\* and its two end points are different rows.
AlignedAttractOnly(it) ==
    /\ kernel = "aligned"
    /\ pc = "kernel"
    /\ pc' = "kernel"
    /\ it \in pending
    /\ it \notin pending'
    /\ fires'[it] # fires[it]
    /\ draws'[it] = draws[it]
    /\ head[it[1]][it[2]] # tail[it[1]][it[2]]

\* Every offset of the window except 0: 1 <= |offset| <= window_size.
WindowOffsets == {o \in (-window_size) .. window_size : Abs(o) >= 1}

\* C25: when the aligned kernel updates head vertex j of embedding m, the
\* correction runs over every offset with 1 <= |offset| <= window_size, both
\* ends included, whose neighbour embedding exists and whose relations entry
\* is not -1, and over no other offset.
C25_EveryWindowOffsetCorrects ==
    [][\A it \in AllItems :
          AlignedAttractOnly(it)
          => head_embedding'[it[1]][head[it[1]][it[2]]]
               = AlignedHeadWith(Cur, it[1], it[2], alpha, WindowOffsets)]_vars

\* C26: in the aligned kernel every point an attractive update moves, the
\* head and under move_other the tail, has its own cross-embedding correction
\* subtracted from its gradient before the gradient is clipped, scaled by
\* alpha and added.
C26_MovedPointsAreCorrected ==
    [][\A it \in AllItems :
          AlignedAttractOnly(it)
          => /\ head_embedding'[it[1]][head[it[1]][it[2]]]
                  = AlignedHeadWith(Cur, it[1], it[2], alpha, AlignedOffsets)
             /\ move_other
                  => (IF aliased THEN head_embedding' ELSE tail_embedding')
                          [it[1]][tail[it[1]][it[2]]]
                       = AlignedTailCorrected(Cur, it[1], it[2], alpha,
                             head_embedding'[it[1]][head[it[1]][it[2]]])]_vars

HookedOnly(epochs, finished) ==
    LET e1 == IF kernel \in EuclideanKernels /\ "epoch_pt" \in hooks /\ epochs > 0
              THEN WholeEmbedding(init_embedding) ELSE init_embedding
    IN  IF kernel \in EuclideanKernels /\ "final_pt" \in hooks /\ finished
        THEN WholeEmbedding(e1) ELSE e1

\* Epoch 0 is being run or has just been run, or a run of one epoch is over.
EpochZero ==
    \/ pc = "kernel" /\ n = 0
    \/ pc = "loop" /\ n = 1
    \/ pc = "done" /\ n_epochs = 1

\* C28 as claimed: after epoch 0 the embedding, the PRNG state and both
\* schedule arrays equal their initial values in every driver, and a run
\* with n_epochs = 1 performs no update at all.
C28_EpochZeroChangesNothing ==
    EpochZero
    => /\ head_embedding = init_embedding
       /\ tail_embedding = epoch_start.te
       /\ rng_state = epoch_start.rng
       /\ epoch_of_next_sample = epochs_per_sample
       /\ epoch_of_next_negative_sample = epochs_per_negative_sample

\* C28 amended: in every driver no edge fires and no negative sample is
\* drawn in epoch 0, so its kernel pass leaves the embeddings, the PRNG
\* state and both schedule arrays at their initial values; the only changes
\* to the embedding in and after epoch 0 are those of the Euclidean driver's
\* whole-embedding hooks (the call after the kernel pass when epoch_pt is
\* given, the call after the loop when final_pt is given).
C28_EpochZeroFiresNoEdge ==
    EpochZero
    => /\ \A it \in AllItems : fires[it] = 0 /\ draws[it] = 0
       /\ head_embedding = HookedOnly(n, pc = "done")
       /\ tail_embedding = epoch_start.te
       /\ rng_state = epoch_start.rng
       /\ epoch_of_next_sample = epochs_per_sample
       /\ epoch_of_next_negative_sample = epochs_per_negative_sample

C28_Witness ==
    /\ pc = "loop"
    /\ n = 1
    /\ AllItems # {}
    /\ "epoch_pt" \in hooks
    /\ head_embedding # init_embedding
    /\ \A it \in AllItems : fires[it] = 0

\* C29: the sequential Euclidean kernel, processing edge i, uses the
\* schedule arrays at index i only: every index used is below the edge count
\* and the entries of every other edge keep their values, with and without
\* move_other and whatever the vertex count.
C29_OnlyOwnScheduleEntry ==
    [][\A it \in AllItems :
          (/\ kernel = "euclidean"
           /\ pc = "kernel"
           /\ it \in pending
           /\ it \notin pending')
          => /\ ScheduleIndices(it[2], fires'[it] # fires[it]) = {it[2]}
             /\ pc' # "crashed"
             /\ \A o \in DOMAIN epoch_of_next_sample[0] \ {it[2]} :
                   /\ epoch_of_next_sample'[0][o] = epoch_of_next_sample[0][o]
                   /\ epoch_of_next_negative_sample'[0][o]
                        = epoch_of_next_negative_sample[0][o]]_vars

\* What the iteration of edge i of the parallel kernel makes of the edge's
\* own schedule entries and counts as they stood when the kernel call began.
OwnEntryAfter(it) ==
    LET e0 == epoch_start.eons[0][it[2]]
        ne0 == epoch_start.eonns[0][it[2]]
        cnt == TruncDiv(n * TU - ne0, epochs_per_negative_sample[0][it[2]])
    IN  IF e0 <= n * TU
        THEN [eons |-> e0 + epochs_per_sample[0][it[2]],
              eonns |-> IF cnt > 0
                        THEN ne0 + cnt * epochs_per_negative_sample[0][it[2]] ELSE ne0,
              fires |-> epoch_start.fires[it] + 1,
              draws |-> epoch_start.draws[it] + (IF cnt > 0 THEN cnt ELSE 0)]
        ELSE [eons |-> e0, eonns |-> ne0,
              fires |-> epoch_start.fires[it], draws |-> epoch_start.draws[it]]

\* C30: in the parallel Euclidean kernel the schedule entries of edge i are
\* read and written by the iteration of edge i alone: whichever iterations
\* have run, in whatever order and overlap, the entries of an edge not yet
\* processed are those of the start of the kernel call, and those of a
\* processed edge, whether it fired and how many negative samples it drew
\* follow from its own entries at the start of the call and n.
C30_ScheduleSameForEveryInterleaving ==
    (kernel = "euclidean_para" /\ pc = "kernel")
    => \A it \in AllItems :
          IF it \in pending
          THEN /\ epoch_of_next_sample[0][it[2]] = epoch_start.eons[0][it[2]]
               /\ epoch_of_next_negative_sample[0][it[2]] = epoch_start.eonns[0][it[2]]
               /\ fires[it] = epoch_start.fires[it]
               /\ draws[it] = epoch_start.draws[it]
          ELSE /\ epoch_of_next_sample[0][it[2]] = OwnEntryAfter(it).eons
               /\ epoch_of_next_negative_sample[0][it[2]] = OwnEntryAfter(it).eonns
               /\ fires[it] = OwnEntryAfter(it).fires
               /\ draws[it] = OwnEntryAfter(it).draws

\* C30 witness: a kernel call of the parallel kernel is over in which two
\* edges fired, negative samples were drawn, and an overlap of two
\* iterations has overwritten an update of the embedding.
C30_Witness ==
    /\ kernel = "euclidean_para"
    /\ pc = "kernel"
    /\ pending = {}
    /\ lost_update
    /\ Cardinality({it \in AllItems : fires[it] # epoch_start.fires[it]}) >= 2
    /\ \E it \in AllItems : draws[it] # epoch_start.draws[it]
====
